---------------------------- MODULE Spec2Model ----------------------------
(***************************************************************************)
(* A model of cvickery/course_mapper: the recursive interpreter of parsed  *)
(* requirement blocks (course_mapper.py) and its utilities                 *)
(* (course_mapper_utils.py).                                               *)
(*                                                                         *)
(* The module holds several specifications over one set of variables:      *)
(*   SpecGrade    letter_grade() applied to a grade point                  *)
(*   SpecCourses  mogrify_course_list() applied to a course_dict           *)
(*   SpecHeader   traverse_header() / header_conditional() on a header     *)
(*   Spec         a whole run: main's loop over the active plans, with     *)
(*                process_block(), traverse_body(), body_conditional() and *)
(*                map_courses() as a call stack machine                    *)
(* Each specification leaves the variables of the others at their idle     *)
(* values.                                                                 *)
(***************************************************************************)
EXTENDS Integers, Sequences, FiniteSets, TLC

VARIABLES
  \* letter_grade(): the argument (in tenths of a grade point) and the result
  grade_point, grade_result,
  \* mogrify_course_list(): the course_dict argument and what the call produced
  \* (<< >> before the call, <<outcome>> after it)
  course_dict, mogrified,
  \* the command line: args.concise_conditionals, and the globals do_proxyadvice
  \* and do_remarks that main derives from --no_proxy_advice and --no_remarks
  args,
  \* traverse_header(): the parse tree's header_list and what the call produced
  \* (<< >> before the call, <<outcome>> after it)
  header_list, header_dict,
  \* a run of main: the requirement_blocks table, the keys the quarantine manager
  \* holds, the plans active_plans() yields, the main loop's programs_count and
  \* the module's globals (requirement_key, the output files, the log files, ...)
  requirement_blocks, quarantined, plans, programs_count, globals

gradeVars == <<grade_point, grade_result>>

courseVars == <<course_dict, mogrified>>

headerVars == <<args, header_list, header_dict>>

runVars == <<requirement_blocks, quarantined, plans, programs_count, globals>>

vars ==
  <<grade_point, grade_result, course_dict, mogrified, args, header_list, header_dict,
    requirement_blocks, quarantined, plans, programs_count, globals>>

\* The idle values of each group of variables
IdleGrade == grade_point = 0 /\ grade_result = "none"

IdleCourses == course_dict = "none" /\ mogrified = << >>

IdleRun ==
  /\ requirement_blocks = << >>
  /\ quarantined = {}
  /\ plans = << >>
  /\ programs_count = 0
  /\ globals = << >>

IdleHeader ==
  /\ args = [concise_conditionals |-> FALSE, do_proxyadvice |-> TRUE, do_remarks |-> TRUE]
  /\ header_list = << >>
  /\ header_dict = << >>

(***************************************************************************)
(* Small helpers on sequences.                                             *)
(***************************************************************************)
Min(a, b) == IF a < b THEN a ELSE b

SeqToSet(s) == {s[i] : i \in 1..Len(s)}

(***************************************************************************)
(* letter_grade(), course_mapper_utils.py.  Grade points are kept in       *)
(* tenths (grade_point = 17 stands for 1.7): (10 * grade_point) - 7 is     *)
(* then the integer grade_point - 7, and divmod and int(x / 3) are the     *)
(* integer quotient and remainder.                                         *)
(***************************************************************************)
\* Largest grade point (in tenths) handed to letter_grade
MaxTenths == 60

Letters == <<"D", "C", "B", "A">>

Suffixes == <<"-", "", "+">>

\* The string letter + suffix
Concat(letter, suffix) ==
  CASE suffix = "-" -> CASE letter = "D" -> "D-" [] letter = "C" -> "C-"
                         [] letter = "B" -> "B-" [] OTHER -> "A-"
    [] suffix = "+" -> CASE letter = "D" -> "D+" [] letter = "C" -> "C+"
                         [] letter = "B" -> "B+" [] OTHER -> "A+"
    [] OTHER -> letter

letter_grade(gp) ==
  IF gp < 10 THEN "Any"
  ELSE LET letter_index == (gp - 7) \div 10
           suffix_index == (gp - 7) % 10
           letter == Letters[Min(letter_index, 3) + 1]
           suffix == Suffixes[Min(suffix_index \div 3, 2) + 1]
       IN  Concat(letter, suffix)

InitGrade ==
  /\ grade_point \in 0..MaxTenths
  /\ grade_result = "none"
  /\ IdleCourses
  /\ IdleHeader
  /\ IdleRun

LetterGradeCall ==
  /\ grade_result = "none"
  /\ grade_result' = letter_grade(grade_point)
  /\ UNCHANGED <<grade_point, courseVars, headerVars, runVars>>

NextGrade == LetterGradeCall

SpecGrade == InitGrade /\ [][NextGrade]_vars

(***************************************************************************)
(* C6.  letter_grade is defined for every grade point >= 0, returns "Any"  *)
(* below 1.0, "D" at 1.0, "A" at 4.0 and "A+" for every value >= 4.3, and  *)
(* its result never decreases in the order Any < D < D+ < C- < ... < A <   *)
(* A+ as the grade point increases.                                        *)
(***************************************************************************)
GradeOrder == <<"Any", "D", "D+", "C-", "C", "C+", "B-", "B", "B+", "A-", "A", "A+">>

GradeRank(g) == CHOOSE i \in 1..Len(GradeOrder) : GradeOrder[i] = g

C6_LetterGradeTotalMonotonic ==
  grade_result # "none" =>
    /\ grade_result \in SeqToSet(GradeOrder)
    /\ (grade_point < 10 => grade_result = "Any")
    /\ (grade_point = 10 => grade_result = "D")
    /\ (grade_point = 40 => grade_result = "A")
    /\ (grade_point >= 43 => grade_result = "A+")
    /\ \A lower \in 0..grade_point :
         letter_grade(lower) \in SeqToSet(GradeOrder)
           => GradeRank(letter_grade(lower)) <= GradeRank(grade_result)


(***************************************************************************)
(* The catalog, as courses_cache() presents it to mogrify_course_list():   *)
(* courses_cache(institution, discipline, catalog_number) returns the      *)
(* active courses a scribed (discipline, catalog_number) pair matches,     *)
(* wildcards (@) expanded.  The catalog is the one of the specification's  *)
(* end-to-end scenario: BIO 100 (1 cr), BIO 101 (3 cr), BIO 102 (4 cr).    *)
(***************************************************************************)
CourseInfo(id, num, title, credits) ==
  [course_id |-> id, offer_nbr |-> 1, discipline |-> "BIO", catalog_number |-> num,
   course_title |-> title, credits |-> credits, career |-> "UGRD"]

Catalog ==
  << CourseInfo(100, "100", "Intro", "1.0"),
     CourseInfo(101, "101", "Cells", "3.0"),
     CourseInfo(102, "102", "Genes", "4.0") >>

\* The catalog-number patterns that occur in scribed course lists
CatalogPatterns == {"100", "101", "1@"}

PatternMatches(pattern, catalog_number) ==
  \/ pattern = catalog_number
  \/ pattern = "1@" /\ catalog_number \in {"100", "101", "102"}
  \/ pattern = "@"

RECURSIVE MatchingCourses(_, _, _)
\* The courses of s that a (discipline, catalog_number) pattern matches, in order
MatchingCourses(s, discipline, pattern) ==
  IF s = << >> THEN << >>
  ELSE LET rest == MatchingCourses(Tail(s), discipline, pattern)
       IN  IF /\ Head(s).discipline = discipline \/ discipline = "@"
              /\ PatternMatches(pattern, Head(s).catalog_number)
           THEN <<Head(s)>> \o rest
           ELSE rest

courses_cache(discipline, catalog_number) ==
  MatchingCourses(Catalog, discipline, catalog_number)

(***************************************************************************)
(* With-clauses.  str.lower() is a table over the with-clauses that occur; *)
(* the two substring tests of mogrify_course_list are tables over the      *)
(* lower-cased texts.  "" stands for an absent (None) or empty clause.     *)
(***************************************************************************)
WithClauses == {"", "mingrade=c", "MinGrade=B", "DWTerm=1202", "ATTRIBUTE=FCER"}

Lower(with_clause) ==
  CASE with_clause = "MinGrade=B" -> "mingrade=b"
    [] with_clause = "DWTerm=1202" -> "dwterm=1202"
    [] with_clause = "ATTRIBUTE=FCER" -> "attribute=fcer"
    [] OTHER -> with_clause

ContainsDwterm(lowered) == lowered = "dwterm=1202"

ContainsAttribute(lowered) == lowered = "attribute=fcer"

\* A scribed course: (0: discipline, 1: catalog_number, 2: with_clause)
CourseTuples == {"BIO"} \X CatalogPatterns \X WithClauses

\* The with-clauses that occur in exclude (except) lists
ExceptTuples == {"BIO"} \X CatalogPatterns \X {"", "DWTerm=1202", "mingrade=c"}

(***************************************************************************)
(* Iteration orders.  Python iterates a set in an order the program does   *)
(* not control: every loop over a set runs over some permutation of it.    *)
(***************************************************************************)
Perms(S) ==
  {p \in [1..Cardinality(S) -> S] : \A i, j \in 1..Cardinality(S) : p[i] = p[j] => i = j}

RECURSIVE Flatten(_)
\* [course for area in course_list for course in area]
Flatten(areas) ==
  IF areas = << >> THEN << >> ELSE Head(areas) \o Flatten(Tail(areas))

RECURSIVE LookupPairs(_)
\* The (tuple, course_info) pairs of the nested loops
\*   for course_tuple in tuples: for course_info in courses_cache(...)
\* in the order the loops visit them
LookupPairs(tuples) ==
  IF tuples = << >> THEN << >>
  ELSE LET t == Head(tuples)
           infos == courses_cache(t[1], t[2])
       IN  [i \in 1..Len(infos) |-> <<t, infos[i]>>] \o LookupPairs(Tail(tuples))

WithKey(course_info) == <<course_info.course_id, course_info.offer_nbr>>

\* The value of a local variable that no loop iteration has bound yet
Unbound == [course_id |-> 0, offer_nbr |-> 0]

RECURSIVE ScribedLoop(_, _)
\* Lines 534-547: the set of active courses and the dict of with-clauses.
\* st.course_info is the loop variable, which outlives the loop.
ScribedLoop(pairs, st) ==
  IF pairs = << >> \/ st.aborted THEN st
  ELSE LET course_tuple == Head(pairs)[1]
           info == Head(pairs)[2]
           bound == [st EXCEPT !.course_info = info]
           with_clause == Lower(course_tuple[3])
           with_key == WithKey(info)
       IN  IF course_tuple[3] # ""
           THEN IF ContainsDwterm(with_clause) \/ ContainsAttribute(with_clause)
                THEN \* continue: the course is not added to course_info_set
                     ScribedLoop(Tail(pairs), bound)
                ELSE IF /\ with_key \in DOMAIN st.with_clauses
                        /\ st.with_clauses[with_key] # with_clause
                     THEN \* print(..., file=debug_file): debug_file is not defined
                          \* in course_mapper_utils.py, so the call raises NameError
                          [bound EXCEPT !.aborted = TRUE]
                     ELSE ScribedLoop(Tail(pairs),
                            [bound EXCEPT
                               !.with_clauses = [k \in DOMAIN @ \cup {with_key} |->
                                                   IF k = with_key THEN with_clause ELSE @[k]],
                               !.course_info_set = @ \cup {info}])
           ELSE ScribedLoop(Tail(pairs), [bound EXCEPT !.course_info_set = @ \cup {info}])

RECURSIVE ExcludeLoop(_, _)
\* Lines 553-556: the set of excluded courses (same loop variable course_info)
ExcludeLoop(pairs, st) ==
  IF pairs = << >> THEN st
  ELSE ExcludeLoop(Tail(pairs),
         [st EXCEPT !.course_info = Head(pairs)[2],
                    !.exclude_info_set = @ \cup {Head(pairs)[2]}])

\* Lines 562-576: what is logged about the with-clauses of the exclude list
ExcludeLog(exclude_list) ==
  {"Exclude course based on DWTerm (ignored)" :
     i \in {j \in 1..Len(exclude_list) :
              exclude_list[j][3] # "" /\ ContainsDwterm(Lower(exclude_list[j][3]))}}
  \cup
  {"mogrify_course_list(): exclude with" :
     i \in {j \in 1..Len(exclude_list) :
              exclude_list[j][3] # "" /\ ~ContainsDwterm(Lower(exclude_list[j][3]))}}

\* Lines 586-591: one MogrifiedInfo.  course_id_str (f'{course_id:06}:{offer_nbr}')
\* and course_str (f'{discipline} {catalog_number}: {course_title}') are kept as the
\* tuples of the values they format.
MogrifiedInfo(course, with_clause) ==
  [course_id_str |-> <<course.course_id, course.offer_nbr>>,
   course_str |-> <<course.discipline, course.catalog_number, course.course_title>>,
   credits |-> course.credits,
   career |-> course.career,
   with_clause |-> with_clause]

\* Line 583: with_key is taken from course_info, the variable the loops above left
\* bound to the last course they visited, not from the course being returned
ReturnWithKey(course, course_info) == WithKey(course_info)

\* A mogrify_course_list() that leaves the excluded courses in the result
RemoveExcludedNone(course_info_set, exclude_info_set) == course_info_set

\* Line 579: course_info_set -= exclude_info_set
RemoveExcluded(course_info_set, exclude_info_set) == course_info_set \ exclude_info_set

\* mogrify_course_list(), for one choice of the three set iteration orders:
\* scribed_order and exclude_order are permutations of the two sets of tuples,
\* return_order maps positions to the courses that remain.
mogrify_course_list(dict, scribed_order, exclude_order, return_order) ==
  LET st0 == [course_info_set |-> {}, with_clauses |-> << >>, exclude_info_set |-> {},
              course_info |-> Unbound, aborted |-> FALSE]
      st1 == ScribedLoop(LookupPairs(scribed_order), st0)
      st2 == ExcludeLoop(LookupPairs(exclude_order), st1)
      remaining == RemoveExcluded(st2.course_info_set, st2.exclude_info_set)
      with_clause(course) ==
        LET with_key == ReturnWithKey(course, st2.course_info)
        IN  IF with_key \in DOMAIN st2.with_clauses THEN st2.with_clauses[with_key] ELSE ""
  IN  IF st1.aborted
      THEN [aborted |-> TRUE, return_list |-> << >>, log |-> {}]
      ELSE [aborted |-> FALSE,
            return_list |-> [i \in 1..Cardinality(remaining) |->
                               MogrifiedInfo(return_order[i], with_clause(return_order[i]))],
            log |-> (IF dict.include_courses # << >>
                       THEN {"Non-empty include_courses (ignored)"} ELSE {})
                    \cup (IF st2.exclude_info_set # {}
                            THEN {"Non-empty exclude list"} ELSE {})
                    \cup ExcludeLog(dict.except_courses)]

\* The courses that remain, which is what return_order has to enumerate
Remaining(dict, scribed_order, exclude_order) ==
  LET st0 == [course_info_set |-> {}, with_clauses |-> << >>, exclude_info_set |-> {},
              course_info |-> Unbound, aborted |-> FALSE]
      st1 == ScribedLoop(LookupPairs(scribed_order), st0)
      st2 == ExcludeLoop(LookupPairs(exclude_order), st1)
  IN  IF st1.aborted THEN {}
      ELSE RemoveExcluded(st2.course_info_set, st2.exclude_info_set)

\* Every value a call of mogrify_course_list(course_dict) can return
MogrifyOutcomes(dict) ==
  LET course_tuples_set == SeqToSet(Flatten(dict.scribed_courses))
      exclude_tuples_set == SeqToSet(dict.except_courses)
  IN  UNION { UNION { { mogrify_course_list(dict, so, eo, ro) :
                          ro \in Perms(Remaining(dict, so, eo)) } :
                      eo \in Perms(exclude_tuples_set) } :
              so \in Perms(course_tuples_set) }


(***************************************************************************)
(* SpecCourses: mogrify_course_list() on every course_dict within bounds.  *)
(***************************************************************************)
\* Most scribed courses in a course_dict
MaxScribed == 2

\* Most courses in the exclude list of a course_dict
MaxExcept == 1

\* A list of the elements of a set
SetToSeq(S) == CHOOSE p \in Perms(S) : TRUE

\* scribed_courses is a list of areas: the first scribed course in an area of its
\* own, the others in a second area
Areas(S) ==
  IF Cardinality(S) <= 1 THEN <<SetToSeq(S)>>
  ELSE << <<SetToSeq(S)[1]>>, Tail(SetToSeq(S)) >>

BoundedSeqs(S, n) == UNION {[1..k -> S] : k \in 0..n}

CourseDicts ==
  {[include_courses |-> << >>, scribed_courses |-> Areas(S), except_courses |-> e] :
     S \in {T \in SUBSET CourseTuples : Cardinality(T) <= MaxScribed},
     e \in BoundedSeqs(ExceptTuples, MaxExcept)}

InitCourses ==
  /\ course_dict \in CourseDicts
  /\ mogrified = << >>
  /\ IdleGrade
  /\ IdleHeader
  /\ IdleRun

MogrifyCall ==
  /\ mogrified = << >>
  /\ \E outcome \in MogrifyOutcomes(course_dict) : mogrified' = <<outcome>>
  /\ UNCHANGED <<course_dict, gradeVars, headerVars, runVars>>

NextCourses == MogrifyCall

SpecCourses == InitCourses /\ [][NextCourses]_vars

\* The identities (course_id, offer_nbr) the catalog lookup returns for a list of tuples
Expand(tuples) ==
  UNION {{WithKey(courses_cache(tuples[i][1], tuples[i][2])[k]) :
            k \in 1..Len(courses_cache(tuples[i][1], tuples[i][2]))} : i \in 1..Len(tuples)}

\* The identities of the records the call returned (none when it aborted)
ReturnedIds ==
  {mogrified[1].return_list[i].course_id_str : i \in 1..Len(mogrified[1].return_list)}

(***************************************************************************)
(* C4.  For every scribed list S (any with-clauses on its triples) and     *)
(* exclude list E, the records returned by mogrify_course_list contain no  *)
(* course that the catalog lookup returns for a triple of E, and contain   *)
(* every course returned for some triple of S that is not returned for any *)
(* triple of E.                                                            *)
(***************************************************************************)
C4_ExclusionIsSetDifference ==
  mogrified # << >> =>
    /\ ReturnedIds \cap Expand(course_dict.except_courses) = {}
    /\ Expand(Flatten(course_dict.scribed_courses)) \ Expand(course_dict.except_courses)
         \subseteq ReturnedIds

(***************************************************************************)
(* C5.  Normalizing a course list whose scribed part is a single concrete  *)
(* triple that resolves to exactly one catalog course returns exactly one  *)
(* record with that course identity and that triple's with-clause; this    *)
(* holds also when the list carries a non-empty exclude list that does not *)
(* match the course.                                                       *)
(***************************************************************************)
SingleConcrete(dict) ==
  /\ Len(Flatten(dict.scribed_courses)) = 1
  /\ Cardinality(Expand(Flatten(dict.scribed_courses))) = 1
  /\ Expand(Flatten(dict.scribed_courses)) \cap Expand(dict.except_courses) = {}

C5_SingleCourseUnchanged ==
  (mogrified # << >> /\ SingleConcrete(course_dict)) =>
    /\ ~mogrified[1].aborted
    /\ Len(mogrified[1].return_list) = 1
    /\ {mogrified[1].return_list[1].course_id_str}
         = Expand(Flatten(course_dict.scribed_courses))
    /\ mogrified[1].return_list[1].with_clause = Flatten(course_dict.scribed_courses)[1][3]

\* The with-clause of a scribed triple is one that mogrify_course_list ignores
IgnoredWithClause(course_tuple) ==
  /\ course_tuple[3] # ""
  /\ ContainsDwterm(Lower(course_tuple[3])) \/ ContainsAttribute(Lower(course_tuple[3]))

\* The scribed triples of a course_dict that the catalog lookup resolves to a course
TriplesOf(dict, with_key) ==
  {t \in SeqToSet(Flatten(dict.scribed_courses)) : with_key \in Expand(<<t>>)}

\* The courses that are reached only through triples with an ignored with-clause
\* and that no triple of the exclude list reaches
OnlyIgnoredClauses(dict) ==
  {with_key \in Expand(Flatten(dict.scribed_courses)) \ Expand(dict.except_courses) :
     \A t \in TriplesOf(dict, with_key) : IgnoredWithClause(t)}

\* The records returned for a course identity
ReturnedFor(with_key) ==
  {mogrified[1].return_list[i] :
     i \in {j \in 1..Len(mogrified[1].return_list) :
              mogrified[1].return_list[j].course_id_str = with_key}}

\* C25: a course reached only through scribed triples whose with-clause mentions
\* DWTerm or an attribute is still returned by mogrify_course_list, with an empty
\* with-clause.
C25_CourseKeptClauseDropped ==
  mogrified # << >> =>
    \A with_key \in OnlyIgnoredClauses(course_dict) :
      /\ ReturnedFor(with_key) # {}
      /\ \A info \in ReturnedFor(with_key) : info.with_clause = ""

\* No returned record carries an ignored with-clause
IgnoredClauseNeverReturned ==
  mogrified # << >> =>
    \A i \in 1..Len(mogrified[1].return_list) :
      LET with_clause == mogrified[1].return_list[i].with_clause
      IN  ~ContainsDwterm(with_clause) /\ ~ContainsAttribute(with_clause)

\* The with-clauses that the scribed triples of a course give it: the lower-cased
\* clauses that are neither empty nor ignored
OwnWithClauses(dict, with_key) ==
  {Lower(t[3]) : t \in {u \in TriplesOf(dict, with_key) : u[3] # "" /\ ~IgnoredWithClause(u)}}

\* Two scribed triples with different with-clauses resolve to the same course
ConflictingWithClauses(dict) ==
  \E with_key \in Expand(Flatten(dict.scribed_courses)) :
    \E t, u \in TriplesOf(dict, with_key) : t[3] # u[3]

\* C26: when two scribed triples with different with-clauses resolve to the same
\* course, mogrify_course_list does not abort, and every returned record carries
\* a with-clause collected for its own course identity (none collected: the empty
\* one).
C26_ConflictKeepsOwnClause ==
  (mogrified # << >> /\ ConflictingWithClauses(course_dict)) =>
    /\ ~mogrified[1].aborted
    /\ \A i \in 1..Len(mogrified[1].return_list) :
         LET info == mogrified[1].return_list[i]
             own == OwnWithClauses(course_dict, info.course_id_str)
         IN  info.with_clause \in (IF own = {} THEN {""} ELSE own)

\* The call aborts exactly when some course is given two different with-clauses
AbortsOnTwoClauses ==
  mogrified # << >> =>
    (mogrified[1].aborted <=>
       \E with_key \in Expand(Flatten(course_dict.scribed_courses)) :
         Cardinality(OwnWithClauses(course_dict, with_key)) > 1)

\* C30: every course that the catalog lookup returns for a triple of the exclude
\* list is absent from the result of mogrify_course_list, whatever with-clause
\* the triple carries; a with-clause that mentions DWTerm is logged as ignored
\* and the courses of its triple are removed all the same.
C30_ExcludedWhateverClause ==
  mogrified # << >> =>
    \A i \in DOMAIN course_dict.except_courses :
      LET exclude_tuple == course_dict.except_courses[i]
      IN  /\ Expand(<<exclude_tuple>>) \cap ReturnedIds = {}
          /\ (~mogrified[1].aborted /\ ContainsDwterm(Lower(exclude_tuple[3])))
               => "Exclude course based on DWTerm (ignored)" \in mogrified[1].log

\* An exclude triple whose with-clause mentions DWTerm has removed a course that
\* the scribed list holds, beside a course that is returned
C30_Witness ==
  /\ mogrified # << >>
  /\ ~mogrified[1].aborted
  /\ mogrified[1].return_list # << >>
  /\ \E i \in DOMAIN course_dict.except_courses :
       /\ ContainsDwterm(Lower(course_dict.except_courses[i][3]))
       /\ \E t \in SeqToSet(Flatten(course_dict.scribed_courses)) :
            /\ ~IgnoredWithClause(t)
            /\ Expand(<<t>>) \cap Expand(<<course_dict.except_courses[i]>>) # {}


(***************************************************************************)
(* Header constructs, course_mapper_utils.py: each turns the value of one  *)
(* header item into the dict that is appended to a qualifier list.         *)
(* Formatted numbers (f'{x:.1f} credits') are kept as tuples of the values *)
(* they format.  None is the string "None".                                *)
(***************************************************************************)
header_classcredit(value, do_proxyadvice) ==
  LET classes_part ==
        IF value.min_classes # "None" \/ value.max_classes # "None"
        THEN IF value.min_classes = value.max_classes
             THEN <<value.max_classes, "classes">>
             ELSE <<value.min_classes, value.max_classes, "classes">>
        ELSE << >>
      credits_part ==
        IF value.min_credits # "None" \/ value.max_credits # "None"
        THEN IF value.min_credits = value.max_credits
             THEN <<value.max_credits, "credits">>
             ELSE <<value.min_credits, value.max_credits, "credits">>
        ELSE << >>
      size == IF classes_part # << >> /\ credits_part # << >>
              THEN classes_part \o <<value.conjunction>> \o credits_part
              ELSE classes_part \o credits_part
  IN  IF value.label # ""
      THEN [label |-> value.label, is_pseudo |-> value.is_pseudo, size |-> size]
      ELSE [is_pseudo |-> value.is_pseudo, size |-> size]

header_maxtransfer(value) ==
  [label |-> value.label,
   limit |-> IF value.maxtransfer.class_or_credit = "credit"
             THEN <<value.maxtransfer.number, "credits">>
             ELSE <<value.maxtransfer.number, "classes">>]

header_minres(value) ==
  [minres |-> IF value.minres.min_credits = "None"
              THEN <<value.minres.min_classes, "classes">>
              ELSE <<value.minres.min_credits, "credits">>,
   label |-> value.label]

header_mingpa(value) == [number |-> value.mingpa.number, label |-> value.label]

header_mingrade(value) ==
  [number |-> value.mingrade.number,
   letter_grade |-> letter_grade(value.mingrade.number),
   label |-> value.label]

\* header_maxclass and header_maxcredit put the mogrified courses of the
\* qualifier's course list into the dict
HeaderCourseDicts(return_list) ==
  [i \in 1..Len(return_list) |->
     [course_id |-> return_list[i].course_id_str,
      course |-> return_list[i].course_str,
      with |-> return_list[i].with_clause]]

HeaderCourses(dict) ==
  HeaderCourseDicts((CHOOSE o \in MogrifyOutcomes(dict) : TRUE).return_list)

header_maxclass(value) ==
  [label |-> value.label, number |-> value.maxclass.number,
   courses |-> HeaderCourses(value.maxclass.course_list)]

header_maxcredit(value) ==
  [label |-> value.label, number |-> value.maxcredit.number,
   courses |-> HeaderCourses(value.maxcredit.course_list)]

header_maxpassfail(value) == [number |-> value.maxpassfail.number, label |-> value.label]

header_maxperdisc(value) == [number |-> value.maxperdisc.number, label |-> value.label]

header_minclass(value) == [number |-> value.minclass.number, label |-> value.label]

header_mincredit(value) == [number |-> value.mincredit.number, label |-> value.label]

header_minperdisc(value) == [number |-> value.minperdisc.number, label |-> value.label]

(***************************************************************************)
(* The return_dict of traverse_header(): five column lists and the lists   *)
(* of the 'other' column.                                                  *)
(***************************************************************************)
ColumnKeys ==
  {"total_credits_list", "maxtransfer_list", "minres_list", "mingrade_list", "mingpa_list"}

OtherKeys ==
  {"maxclass_list", "maxcredit_list", "maxpassfail_list", "maxperdisc_list",
   "minclass_list", "mincredit_list", "minperdisc_list", "proxyadvice_list",
   "conditional_dict"}

\* Lines 773-798
EmptyReturnDict ==
  [columns |-> [k \in ColumnKeys |-> << >>], other |-> [k \in OtherKeys |-> << >>]]

\* return_dict[which_list].append(x) for a column, return_dict['other'][which_list]
\* .append(x) for a list of the other column
AppendTo(return_dict, which_list, x) ==
  IF which_list \in ColumnKeys
  THEN [return_dict EXCEPT !.columns[which_list] = Append(@, x)]
  ELSE [return_dict EXCEPT !.other[which_list] = Append(@, x)]

\* The list a header item of a kind is appended to, and the dict appended
QualifierList(key) ==
  CASE key = "header_class_credit" -> "total_credits_list"
    [] key = "header_maxtransfer" -> "maxtransfer_list"
    [] key = "header_minres" -> "minres_list"
    [] key = "header_mingpa" -> "mingpa_list"
    [] key = "header_mingrade" -> "mingrade_list"
    [] key = "header_maxclass" -> "maxclass_list"
    [] key = "header_maxcredit" -> "maxcredit_list"
    [] key = "header_maxpassfail" -> "maxpassfail_list"
    [] key = "header_maxperdisc" -> "maxperdisc_list"
    [] key = "header_minclass" -> "minclass_list"
    [] key = "header_mincredit" -> "mincredit_list"
    [] key = "header_minperdisc" -> "minperdisc_list"
    [] OTHER -> "proxyadvice_list"

QualifierDict(key, value, do_proxyadvice) ==
  CASE key = "header_class_credit" -> header_classcredit(value, do_proxyadvice)
    [] key = "header_maxtransfer" -> header_maxtransfer(value)
    [] key = "header_minres" -> header_minres(value)
    [] key = "header_mingpa" -> header_mingpa(value)
    [] key = "header_mingrade" -> header_mingrade(value)
    [] key = "header_maxclass" -> header_maxclass(value)
    [] key = "header_maxcredit" -> header_maxcredit(value)
    [] key = "header_maxpassfail" -> header_maxpassfail(value)
    [] key = "header_maxperdisc" -> header_maxperdisc(value)
    [] key = "header_minclass" -> header_minclass(value)
    [] key = "header_mincredit" -> header_mincredit(value)
    [] key = "header_minperdisc" -> header_minperdisc(value)
    [] OTHER -> value

\* The kinds of header item with a qualifier list of their own
QualifierKeys ==
  {"header_class_credit", "header_maxtransfer", "header_minres", "header_mingpa",
   "header_mingrade", "header_maxclass", "header_maxcredit", "header_maxpassfail",
   "header_maxperdisc", "header_minclass", "header_mincredit", "header_minperdisc"}


(***************************************************************************)
(* header_conditional(), course_mapper.py.  A call keeps the lists it has  *)
(* tagged in tagged_true_lists and tagged_false_lists; exit_msg is the     *)
(* message of an exit() or the name of an uncaught exception ("" while the *)
(* run goes on).                                                           *)
(***************************************************************************)
\* Lines 61-62
column_lists ==
  {"total_credits_list", "maxtransfer_list", "minres_list", "mingrade_list", "mingpa_list"}

\* Lines 65-66
other_lists ==
  {"total_credits_list", "maxcredit_list", "maxtransfer_list", "minclass_list",
   "mincredit_list", "minres_list", "mingrade_list", "mingpa_list"}

\* Lines 78-81
WhichDict(condition_str, which_leg, concise) ==
  IF concise
  THEN IF which_leg THEN [if |-> condition_str] ELSE [else |-> ""]
  ELSE IF which_leg THEN [if_true |-> condition_str] ELSE [if_false |-> condition_str]

\* Lines 85-90 and 94-99
TagAppend(ls, which_list, which_dict) ==
  IF which_list \in column_lists
  THEN [ls EXCEPT !.return_dict.columns[which_list] = Append(@, which_dict)]
  ELSE IF which_list \in other_lists
       THEN [ls EXCEPT !.return_dict.other[which_list] = Append(@, which_dict)]
       ELSE [ls EXCEPT !.exit_msg = "is not in column_lists or other_lists"]

\* tag(), lines 76-99
tag(ls, which_list, which_leg, condition_str, concise) ==
  LET which_dict == WhichDict(condition_str, which_leg, concise)
  IN  IF which_leg /\ which_list \notin SeqToSet(ls.tagged_true_lists)
      THEN TagAppend([ls EXCEPT !.tagged_true_lists = Append(@, which_list)],
                     which_list, which_dict)
      ELSE IF ~which_leg /\ which_list \notin SeqToSet(ls.tagged_false_lists)
           THEN TagAppend([ls EXCEPT !.tagged_false_lists = Append(@, which_list)],
                          which_list, which_dict)
           ELSE ls

\* A header_conditional() that closes none of the lists it opened
EndTagsNone(return_dict, tagged_lists, condition_str) == return_dict

RECURSIVE EndTags(_, _, _)
\* Lines 313-317: an endif for every list tagged in the true leg
EndTags(return_dict, tagged_lists, condition_str) ==
  IF tagged_lists = << >> THEN return_dict
  ELSE EndTags(AppendTo(return_dict, Head(tagged_lists), [endif |-> condition_str]),
               Tail(tagged_lists), condition_str)

RECURSIVE header_conditional(_, _, _)
RECURSIVE ConditionalLeg(_, _, _, _, _)

\* The handlers of one leg (lines 104-198 for the true leg, 204-305 for the false
\* leg), applied to the requirements of the leg in their order
\* What a nested conditional leaves of the lists of the leg that holds it
Nested(ls, nested) ==
  [ls EXCEPT !.return_dict = nested.return_dict, !.exit_msg = nested.exit_msg]

ConditionalLeg(requirements, ls, which_leg, condition_str, a) ==
  IF requirements = << >> \/ ls.exit_msg # "" THEN ls
  ELSE LET key == Head(requirements).key
           value == Head(requirements).value
           rest == Tail(requirements)
       IN  CASE key = "conditional" ->
                  ConditionalLeg(rest,
                    Nested(ls, header_conditional(
                                 [return_dict |-> ls.return_dict, exit_msg |-> ""],
                                 Head(requirements), a)),
                    which_leg, condition_str, a)
             [] key \in QualifierKeys ->
                  LET tagged == tag(ls, QualifierList(key), which_leg, condition_str,
                                    a.concise_conditionals)
                  IN  IF tagged.exit_msg # "" THEN tagged
                      ELSE ConditionalLeg(rest,
                             [tagged EXCEPT !.return_dict =
                                AppendTo(@, QualifierList(key),
                                         QualifierDict(key, value, a.do_proxyadvice))],
                             which_leg, condition_str, a)
             [] key = "proxyadvice" ->
                  \* if do_proxy_advice: that name is defined nowhere
                  [ls EXCEPT !.exit_msg = "NameError"]
             [] OTHER -> \* header_share, and kinds not implemented (yet)
                  ConditionalLeg(rest, ls, which_leg, condition_str, a)

\* Lines 199-306: the false leg, which is optional; ls is what the true leg left
FalseLeg(conditional, ls, a) ==
  IF "if_false" \in DOMAIN conditional
  THEN ConditionalLeg(conditional.if_false, ls, FALSE, conditional.condition_str, a)
  ELSE ls

\* Lines 308-315: ls is what the legs left
EndConditional(ls, condition_str, a) ==
  IF ls.exit_msg # "" THEN [return_dict |-> ls.return_dict, exit_msg |-> ls.exit_msg]
  ELSE [return_dict |-> EndTags(ls.return_dict, ls.tagged_true_lists,
                                IF a.concise_conditionals THEN "" ELSE condition_str),
        exit_msg |-> ""]

\* header_conditional(), lines 57-317.  st is [return_dict, exit_msg].
header_conditional(st, conditional_dict, a) ==
  LET conditional == conditional_dict.value
      condition_str == conditional.condition_str
      ls0 == [return_dict |-> st.return_dict, exit_msg |-> st.exit_msg,
              tagged_true_lists |-> << >>, tagged_false_lists |-> << >>]
  IN  EndConditional(
        FalseLeg(conditional,
                 ConditionalLeg(conditional.if_true, ls0, TRUE, condition_str, a), a),
        condition_str, a)

(***************************************************************************)
(* traverse_header(), course_mapper.py lines 768-945.                      *)
(***************************************************************************)
\* Lines 933-934, and header_lastres
IgnoredHeaderKeys ==
  {"header_lastres", "header_maxterm", "header_minterm", "lastres", "noncourse", "optional",
   "rule_complete", "standalone", "header_share", "header_tag", "under"}

RECURSIVE HeaderItems(_, _, _)
HeaderItems(items, st, a) ==
  IF items = << >> \/ st.exit_msg # "" THEN st
  ELSE LET key == Head(items).key
           value == Head(items).value
           rest == Tail(items)
       IN  CASE key = "conditional" ->
                  HeaderItems(rest, header_conditional(st, Head(items), a), a)
             [] key \in QualifierKeys ->
                  HeaderItems(rest,
                    [st EXCEPT !.return_dict =
                       AppendTo(@, QualifierList(key),
                                QualifierDict(key, value, a.do_proxyadvice))], a)
             [] key = "proxy_advice" ->
                  HeaderItems(rest,
                    IF a.do_proxyadvice
                    THEN [st EXCEPT !.return_dict = AppendTo(@, "proxyadvice_list", value)]
                    ELSE st, a)
             [] key = "remark" ->
                  IF "remark" \in DOMAIN st.return_dict.other
                  THEN [st EXCEPT !.exit_msg = "AssertionError"]
                  ELSE HeaderItems(rest,
                         [st EXCEPT !.return_dict.other =
                            [k \in DOMAIN @ \cup {"remark"} |->
                               IF k = "remark" THEN value ELSE @[k]]], a)
             [] OTHER -> \* ignored kinds, and unexpected ones (reported on stderr)
                  HeaderItems(rest, st, a)

traverse_header(headers, a) ==
  HeaderItems(headers, [return_dict |-> EmptyReturnDict, exit_msg |-> ""], a)


(***************************************************************************)
(* SpecHeader: traverse_header() applied to the header_list of a parse     *)
(* tree, in concise and in verbose mode, with and without proxy advice.    *)
(***************************************************************************)
\* Most items in a leg of a conditional made of the qualifiers of LegKinds
MaxLegItems == 2

\* A course list of one course for header_maxclass and header_maxcredit
HeaderCourseList ==
  [include_courses |-> << >>, scribed_courses |-> << << <<"BIO", "100", "">> >> >>,
   except_courses |-> << >>]

\* The value the parser gives a header item of each kind
HeaderValue(key) ==
  CASE key = "header_class_credit" ->
         [label |-> "total", is_pseudo |-> FALSE, min_classes |-> "None",
          max_classes |-> "None", min_credits |-> "120", max_credits |-> "120",
          conjunction |-> "None"]
    [] key = "header_maxtransfer" ->
         [label |-> "transfer", maxtransfer |-> [number |-> "60", class_or_credit |-> "credit"]]
    [] key = "header_minres" ->
         [label |-> "residency", minres |-> [min_classes |-> "None", min_credits |-> "30"]]
    [] key = "header_mingpa" -> [label |-> "gpa", mingpa |-> [number |-> 20]]
    [] key = "header_mingrade" -> [label |-> "grade", mingrade |-> [number |-> 20]]
    [] key = "header_maxclass" ->
         [label |-> "maxclass", maxclass |-> [number |-> 2, course_list |-> HeaderCourseList]]
    [] key = "header_maxcredit" ->
         [label |-> "maxcredit", maxcredit |-> [number |-> 6, course_list |-> HeaderCourseList]]
    [] key = "header_maxpassfail" -> [label |-> "passfail", maxpassfail |-> [number |-> 1]]
    [] key = "header_maxperdisc" -> [label |-> "maxperdisc", maxperdisc |-> [number |-> 3]]
    [] key = "header_minclass" -> [label |-> "minclass", minclass |-> [number |-> 4]]
    [] key = "header_mincredit" -> [label |-> "mincredit", mincredit |-> [number |-> 12]]
    [] key = "header_minperdisc" -> [label |-> "minperdisc", minperdisc |-> [number |-> 1]]
    [] key \in {"proxyadvice", "proxy_advice"} -> [advice |-> "see an advisor"]
    [] OTHER -> [text |-> key]

HeaderItem(key) == [key |-> key, value |-> HeaderValue(key)]

\* The kinds of header item that are not conditionals
LeafKinds == QualifierKeys \cup {"proxyadvice", "proxy_advice", "header_share", "remark"}

\* The kinds that legs of more than one item are made of
LegKinds == {"header_mingpa", "header_minres"}

\* if_false is << >> for a conditional without a false leg, <<leg>> otherwise
ConditionalItem(condition_str, if_true, if_false) ==
  IF if_false = << >>
  THEN [key |-> "conditional",
        value |-> [condition_str |-> condition_str, if_true |-> if_true]]
  ELSE [key |-> "conditional",
        value |-> [condition_str |-> condition_str, if_true |-> if_true,
                   if_false |-> if_false[1]]]

\* A conditional nested in a leg: one qualifier in its true leg, and no false leg
\* or one qualifier in it
NestedConditionals ==
  {ConditionalItem("Y", <<HeaderItem(t)>>, f) :
     t \in LegKinds, f \in {<< >>} \cup {<< <<HeaderItem(k)>> >> : k \in LegKinds}}

\* The legs: up to MaxLegItems qualifiers of LegKinds, one item of any kind, or
\* one nested conditional
Legs ==
  {[i \in 1..Len(ks) |-> HeaderItem(ks[i])] : ks \in BoundedSeqs(LegKinds, MaxLegItems)}
    \cup {<<HeaderItem(k)>> : k \in LeafKinds}
    \cup {<<c>> : c \in NestedConditionals}

Conditionals ==
  {ConditionalItem("X", t, f) : t \in Legs, f \in {<< >>} \cup {<<leg>> : leg \in Legs}}

\* A header: a leaf item, two remarks, or a conditional with or without a
\* qualifier before and after it
HeaderLists ==
  {<<HeaderItem(k)>> : k \in LeafKinds}
    \cup {<<HeaderItem("remark"), HeaderItem("remark")>>}
    \cup {pre \o <<c>> \o post :
            c \in Conditionals,
            pre \in {<< >>, <<HeaderItem("header_mingpa")>>},
            post \in {<< >>, <<HeaderItem("header_mingpa")>>}}

InitHeader ==
  /\ args \in [concise_conditionals : BOOLEAN, do_proxyadvice : BOOLEAN, do_remarks : {TRUE}]
  /\ header_list \in HeaderLists
  /\ header_dict = << >>
  /\ IdleGrade
  /\ IdleCourses
  /\ IdleRun

TraverseHeaderCall ==
  /\ header_dict = << >>
  /\ header_dict' = <<traverse_header(header_list, args)>>
  /\ UNCHANGED <<args, header_list, gradeVars, courseVars, runVars>>

NextHeader == TraverseHeaderCall

SpecHeader == InitHeader /\ [][NextHeader]_vars

\* The header is one conditional on X whose true leg is one min-gpa qualifier and
\* that has no false leg
OnlyMinGpaInTrueLeg ==
  header_list = <<ConditionalItem("X", <<HeaderItem("header_mingpa")>>, << >>)>>

AllListsEmptyBut(return_dict, which_list) ==
  /\ \A k \in ColumnKeys \ {which_list} : return_dict.columns[k] = << >>
  /\ \A k \in DOMAIN return_dict.other \ {which_list} : return_dict.other[k] = << >>

\* C8 as stated: a header conditional on X with only a min-gpa qualifier in its
\* true leg and no false leg leaves mingpa_list as [{if: X}, value, {endif: X}]
\* in concise mode ([{if_true: X}, value, {endif: X}] in verbose mode), and every
\* other list empty.
C8_MinGpaConditionalAsStated ==
  (OnlyMinGpaInTrueLeg /\ header_dict # << >>) =>
    /\ header_dict[1].exit_msg = ""
    /\ header_dict[1].return_dict.columns["mingpa_list"] =
         << IF args.concise_conditionals THEN [if |-> "X"] ELSE [if_true |-> "X"],
            header_mingpa(HeaderValue("header_mingpa")),
            [endif |-> "X"] >>
    /\ AllListsEmptyBut(header_dict[1].return_dict, "mingpa_list")

\* C8 amended: the same header leaves mingpa_list as [{if: X}, value, {endif: ''}]
\* in concise mode, where the closing tag carries an empty condition, and as
\* [{if_true: X}, value, {endif: X}] in verbose mode; every other list is empty.
C8_MinGpaConditional ==
  (OnlyMinGpaInTrueLeg /\ header_dict # << >>) =>
    /\ header_dict[1].exit_msg = ""
    /\ header_dict[1].return_dict.columns["mingpa_list"] =
         IF args.concise_conditionals
         THEN <<[if |-> "X"], header_mingpa(HeaderValue("header_mingpa")), [endif |-> ""]>>
         ELSE <<[if_true |-> "X"], header_mingpa(HeaderValue("header_mingpa")),
                [endif |-> "X"]>>
    /\ AllListsEmptyBut(header_dict[1].return_dict, "mingpa_list")

\* The min-gpa conditional has been traversed in concise mode
C8_Witness ==
  OnlyMinGpaInTrueLeg /\ header_dict # << >> /\ args.concise_conditionals

\* The list of return_dict that is named which_list
ListOf(return_dict, which_list) ==
  IF which_list \in ColumnKeys THEN return_dict.columns[which_list]
  ELSE return_dict.other[which_list]

IsOpenTag(entry) == DOMAIN entry \cap {"if", "else", "if_true", "if_false"} # {}

IsEndTag(entry) == "endif" \in DOMAIN entry

\* The two legs of a conditional; a conditional without a false leg has an empty one
TrueLegOf(conditional_dict) == conditional_dict.value.if_true

FalseLegOf(conditional_dict) ==
  IF "if_false" \in DOMAIN conditional_dict.value THEN conditional_dict.value.if_false
  ELSE << >>

\* A leg holds a qualifier that goes to which_list
LegOpens(leg, which_list) ==
  \E i \in DOMAIN leg : leg[i].key \in QualifierKeys /\ QualifierList(leg[i].key) = which_list

IsConditional(item) == item.key = "conditional"

\* The conditionals of a header: the ones at its top level, each followed by the
\* ones nested in its legs
HeaderConditionals(headers) ==
  LET top == SelectSeq(headers, IsConditional)
  IN  IF top = << >> THEN << >>
      ELSE top \o SelectSeq(TrueLegOf(top[1]), IsConditional)
               \o SelectSeq(FalseLegOf(top[1]), IsConditional)

\* The header has been traversed to its end, and it holds a conditional
ConditionalTraversed ==
  /\ header_dict # << >>
  /\ header_dict[1].exit_msg = ""
  /\ HeaderConditionals(header_list) # << >>

\* C23: after header_conditional has returned, every list holds one endif tag for
\* each conditional that opened it in its true or in its false leg, one open tag
\* for each leg that appended to it, however many values the leg appended, and no
\* tag at all when no leg appended to it; the endif tag of a conditional that no
\* item follows comes after the last value of the list.
C23_TagsBalanced ==
  ConditionalTraversed =>
    \A which_list \in ColumnKeys \cup OtherKeys :
      LET entries == ListOf(header_dict[1].return_dict, which_list)
          conditionals == HeaderConditionals(header_list)
          in_true == {i \in DOMAIN conditionals :
                        LegOpens(TrueLegOf(conditionals[i]), which_list)}
          in_false == {i \in DOMAIN conditionals :
                         LegOpens(FalseLegOf(conditionals[i]), which_list)}
      IN  /\ Len(SelectSeq(entries, IsEndTag)) = Cardinality(in_true \cup in_false)
          /\ Len(SelectSeq(entries, IsOpenTag))
               = Cardinality(in_true) + Cardinality(in_false)
          /\ (1 \in in_true \cup in_false /\ IsConditional(header_list[Len(header_list)]))
               => entries # << >> /\ IsEndTag(entries[Len(entries)])

\* What the true leg of a conditional without nested conditionals opened is
\* balanced: such a list holds one open tag for each leg that appended to it and
\* ends with the one endif tag of the conditional.
TrueLegBalanced ==
  (/\ ConditionalTraversed
   /\ Len(HeaderConditionals(header_list)) = 1
   /\ IsConditional(header_list[Len(header_list)])) =>
    \A which_list \in ColumnKeys \cup OtherKeys :
      LET entries == ListOf(header_dict[1].return_dict, which_list)
          top == HeaderConditionals(header_list)[1]
      IN  LegOpens(TrueLegOf(top), which_list) =>
            /\ Len(SelectSeq(entries, IsEndTag)) = 1
            /\ IsEndTag(entries[Len(entries)])
            /\ Len(SelectSeq(entries, IsOpenTag))
                 = 1 + (IF LegOpens(FalseLegOf(top), which_list) THEN 1 ELSE 0)

\* A header that is one conditional on X with one qualifier of a kind in its true
\* leg (which_leg) or in its false leg, the true leg then holding an ignored item
OneQualifierConditional(key, which_leg) ==
  IF which_leg THEN <<ConditionalItem("X", <<HeaderItem(key)>>, << >>)>>
  ELSE <<ConditionalItem("X", <<HeaderItem("header_share")>>, << <<HeaderItem(key)>> >>)>>

\* The qualifiers of the kinds, alone in a leg of a conditional, do not end the
\* run, and are written after the open tag of the leg into the list that
\* traverse_header writes them to outside a conditional, and into no other list
QualifiersInLegs(kinds) ==
  \A key \in kinds, which_leg \in BOOLEAN :
    (header_list = OneQualifierConditional(key, which_leg) /\ header_dict # << >>) =>
      /\ header_dict[1].exit_msg = ""
      /\ \A which_list \in ColumnKeys \cup OtherKeys :
           LET outside == ListOf(traverse_header(<<HeaderItem(key)>>, args).return_dict,
                                 which_list)
               inside == ListOf(header_dict[1].return_dict, which_list)
           IN  IF outside = << >> THEN inside = << >>
               ELSE /\ Len(inside) >= 2
                    /\ inside[1] = WhichDict("X", which_leg, args.concise_conditionals)
                    /\ inside[2] = outside[1]

\* C24: every qualifier kind that traverse_header accepts outside a conditional
\* is, in either leg of a header conditional, written with its open tag into the
\* same list of the same return structure, and the run does not abort.
C24_QualifiersInLegs == QualifiersInLegs(QualifierKeys)

\* The kinds whose list tag() knows
TaggableKinds == {key \in QualifierKeys : QualifierList(key) \in column_lists \cup other_lists}

\* The kinds whose list is in column_lists or other_lists are written in both legs
TaggableInLegs == QualifiersInLegs(TaggableKinds)

\* A qualifier of a kind whose list tag() does not know has been met in a leg
UntaggableInLeg ==
  /\ header_dict # << >>
  /\ \E key \in QualifierKeys \ TaggableKinds, which_leg \in BOOLEAN :
       header_list = OneQualifierConditional(key, which_leg)


(***************************************************************************)
(* A run of main (course_mapper.py).  process_block(), traverse_body(),    *)
(* body_conditional() and map_courses() are operators on g, the module's   *)
(* globals: requirement_key, reference_counts, reference_callers,          *)
(* program_blocks_list, the three output files, the log files that the     *)
(* properties read, and                                                    *)
(*   subplan_reference_count  the counters of the subplans in the          *)
(*                            plan_info of the plan in hand                *)
(*   map_courses_calls        one entry for every call of map_courses()    *)
(*   body_interpretations     the blocks whose body_list was traversed for *)
(*                            the plan in hand, in order                   *)
(*   circular_references      the copy_rules references of the plan in     *)
(*                            hand that were found to be circular: the     *)
(*                            block whose body holds the reference, and    *)
(*                            its target                                   *)
(*   plan_checks              the counters and the two histories above as  *)
(*                            every plan found them when its body was done *)
(*   completions              the blocks whose interpretation came to its  *)
(*                            end, in order                                *)
(*   conditionals             the stacks around every body_conditional()   *)
(*   plan_in_hand, frame_zeros  frame 0 of the stack of every call, with   *)
(*                            the plan that was in hand                    *)
(*   splices                  the copy_rules targets whose body was        *)
(*                            spliced, with the stack of the splice        *)
(*   resolutions              the block references resolved: candidates,   *)
(*                            block values of the chain, block taken       *)
(*   blocktypes               the blocktype references met and the         *)
(*                            process_block() calls each one made          *)
(*   class_credits            what every class_credit met added to the     *)
(*                            output files                                 *)
(*   group_names              the names group requirements were given     *)
(*   group_rules              the requirements of groups interpreted, with *)
(*                            the records and calls each one made          *)
(*   raised                   the exception that is propagating ("" when   *)
(*                            none is)                                     *)
(* A context_list is a sequence of frames, each a record with the keys of  *)
(* the dict it stands for.  label_file, blocks_file and anomaly_file are   *)
(* left out.                                                               *)
(***************************************************************************)
Institution == "QNS01"

\* print(..., file=file)
WriteLine(g, file, line) == [g EXCEPT ![file] = Append(@, line)]

Raise(g, exception) == [g EXCEPT !.raised = exception]

\* History: a call was made with the stack context_list while the plan in hand
\* was g.plan_in_hand; what is kept is frame 0 of the stack, << >> when there is none
Called(g, context_list) ==
  [g EXCEPT !.frame_zeros =
     @ \cup {[plan |-> g.plan_in_hand,
               frame |-> IF context_list = << >> THEN << >> ELSE <<context_list[1]>>]}]

\* History: the body_list of block requirement_id is about to be traversed
Interpreted(g, requirement_id) ==
  [g EXCEPT !.body_interpretations = Append(@, requirement_id)]

Last(s) == s[Len(s)]

MinOf(S) == CHOOSE i \in S : \A j \in S : i <= j

\* d[key] = value on a dict
SetItem(d, key, value) ==
  [k \in DOMAIN d \cup {key} |-> IF k = key THEN value ELSE d[k]]

IsBlockFrame(frame) == "block_info" \in DOMAIN frame

\* [item['block_info'] for item in context_list if 'block_info' in item]
NestedBlocks(context_list) ==
  LET frames == SelectSeq(context_list, IsBlockFrame)
  IN  [i \in 1..Len(frames) |-> frames[i].block_info]

RECURSIVE Dedupe(_, _)
\* list(dict.fromkeys(s)): the first occurrence of every element, in order
Dedupe(s, seen) ==
  IF s = << >> THEN << >>
  ELSE IF Head(s) \in seen THEN Dedupe(Tail(s), seen)
       ELSE <<Head(s)>> \o Dedupe(Tail(s), seen \cup {Head(s)})

\* The last character of a requirement id
LastChar(requirement_id) ==
  CASE requirement_id = "RA1" -> "1"
    [] requirement_id = "RA2" -> "2"
    [] requirement_id = "RA3" -> "3"
    [] requirement_id = "RA4" -> "4"
    [] requirement_id = "RA5" -> "5"
    [] OTHER -> "5"

(***************************************************************************)
(* Label templating, map_courses() lines 463-475.  A label is taken token  *)
(* by token: the markers it holds, in the letter case it holds them in,    *)
(* and the text between them.                                              *)
(***************************************************************************)
\* The tokens of the labels that hold a marker; any other label is one token
LabelTokens(label) ==
  CASE label = "Take <COURSETITLE>" -> <<"Take ", "<COURSETITLE>">>
    [] label = "<coursetitle> or <CourseTitle>" -> <<"<coursetitle>", " or ", "<CourseTitle>">>
    [] label = "<CourseCredits> credits" -> <<"<CourseCredits>", " credits">>
    [] OTHER -> <<label>>

\* str.upper() of a marker token
UpperToken(token) ==
  CASE token \in {"<COURSETITLE>", "<coursetitle>", "<CourseTitle>"} -> "<COURSETITLE>"
    [] token \in {"<COURSECREDITS>", "<coursecredits>", "<CourseCredits>"} -> "<COURSECREDITS>"
    [] token \in {"<COURSCREDITS>", "<courscredits>"} -> "<COURSCREDITS>"
    [] OTHER -> token

\* str.lower() of a marker token, which is what a pattern meets under flags=re.I
LowerToken(token) ==
  CASE UpperToken(token) = "<COURSETITLE>" -> "<coursetitle>"
    [] UpperToken(token) = "<COURSECREDITS>" -> "<coursecredits>"
    [] UpperToken(token) = "<COURSCREDITS>" -> "<courscredits>"
    [] OTHER -> token

RECURSIVE JoinTokens(_)
JoinTokens(tokens) ==
  IF tokens = << >> THEN "" ELSE Head(tokens) \o JoinTokens(Tail(tokens))

\* marker in requirement_name.upper()
HasMarker(marker, tokens) == \E i \in DOMAIN tokens : UpperToken(tokens[i]) = marker

\* re.sub(pattern, repl, requirement_name, flags=re.I)
ReSub(pattern, repl, tokens) ==
  [i \in DOMAIN tokens |-> IF LowerToken(tokens[i]) = pattern THEN repl ELSE tokens[i]]

\* '<COURSETITLE>' in requirement_name.upper(), line 467
HasCourseTitle(tokens) == HasMarker("<COURSETITLE>", tokens)

\* '<COURSECREDITS>' in requirement_name.upper(), line 473
HasCourseCredits(tokens) == HasMarker("<COURSECREDITS>", tokens)

\* re.sub(r'<coursetitle>', course_title, requirement_name, flags=re.I), lines 471-472
SubCourseTitle(course_title, tokens) == ReSub("<coursetitle>", course_title, tokens)

\* re.sub(r'<courscredits>', course_info.credits, requirement_name, flags=re.I),
\* lines 474-475
SubCoursCredits(credits, tokens) == ReSub("<courscredits>", credits, tokens)

\* Lines 467-472
TitledTokens(tokens, course_info) ==
  IF HasCourseTitle(tokens) THEN SubCourseTitle(course_info.course_str[3], tokens)
  ELSE tokens

\* Lines 473-475
SubCoursCreditsIf(tokens, course_info) ==
  IF HasCourseCredits(tokens) THEN SubCoursCredits(course_info.credits, tokens) ELSE tokens

\* Lines 463-475
RequirementName(label, course_info) ==
  JoinTokens(SubCoursCreditsIf(TitledTokens(LabelTokens(label), course_info), course_info))

(***************************************************************************)
(* map_courses(), lines 350-486.  mogrify gives, for every course list of  *)
(* the run, the value mogrify_course_list() returns for it in this run.    *)
(* The result is [g, context_list], context_list being the argument with   *)
(* what the call assigned into its last dict.                              *)
(***************************************************************************)
\* Lines 398-403
EnclosingRequirementIds(context_list) ==
  LET nested == NestedBlocks(Tail(context_list))
  IN  [i \in 1..Len(nested) |-> nested[i].requirement_id]

\* History: one entry for a call that found g0 and left g, with the lengths of
\* the files before and after it.  outcome is
\*   "no_course_list"  course_list['scribed_courses'] raised KeyError (line 429)
\*   "empty_course_list"  the course list is empty: mogrify_course_list() raised
\*                     AssertionError
\*   "NameError"       mogrify_course_list() raised NameError
\*   "no_courses"      the course list came back empty
\*   "no_label"        requirement_info['label'] raised KeyError (line 463)
\*   "mapped"          the call ran to its end
MapCoursesCall(g0, g, outcome, num_courses) ==
  [g EXCEPT !.map_courses_calls =
     Append(@, [requirement_key |-> g.requirement_key, outcome |-> outcome,
                num_courses |-> num_courses,
                mapping_before |-> Len(g0.mapping_file),
                mapping_rows |-> Len(g.mapping_file),
                requirements_before |-> Len(g0.requirements_file),
                requirements_rows |-> Len(g.requirements_file),
                no_courses_before |-> Len(g0.no_courses_file),
                no_courses_rows |-> Len(g.no_courses_file)])]

\* History: the label the call was given and the first course it mapped, added to
\* the entry of the call
Templated(g, label, course_info) ==
  [g EXCEPT !.map_courses_calls[Len(g.map_courses_calls)] =
     [name \in DOMAIN @ \cup {"label", "course_title", "credits"} |->
        CASE name = "label" -> label
          [] name = "course_title" -> course_info.course_str[3]
          [] name = "credits" -> course_info.credits
          [] OTHER -> @[name]]]

\* A map_courses() that leaves the key as it found it
KeptKey(requirement_key) == requirement_key

\* requirement_key += 1, line 380
NextKey(requirement_key) == requirement_key + 1

\* Lines 453-460
MappingRows(requirement_key, canonical_course_list) ==
  [i \in 1..Len(canonical_course_list) |->
     [requirement_key |-> requirement_key,
      course_id |-> canonical_course_list[i].course_id_str,
      career |-> canonical_course_list[i].career,
      course |-> canonical_course_list[i].course_str,
      with |-> canonical_course_list[i].with_clause]]

\* A frame that body_conditional() pushes for a leg of a conditional
IsConditionalFrame(frame) == DOMAIN frame \cap {"if", "else", "if_true", "if_false"} # {}

\* A map_courses() that reports in the conditions column whether the requirement
\* stands in a leg of a conditional
ConditionsOfContext(context_list) ==
  IF \E i \in DOMAIN context_list : IsConditionalFrame(context_list[i])
  THEN "conditional" ELSE ""

\* Line 392: conditions = '', which nothing assigns to again (the call of
\* context_conditions() of lines 382-384 is commented out)
Conditions(context_list) == ""

\* Lines 480-486
RequirementRow(plan_info, subplan_name, requirement_ids, requirement_key, block_title, context_list, requirement_name, num_courses) ==
  [institution |-> Institution, plan_name |-> plan_info.plan_name,
   plan_type |-> plan_info.plan_type, subplan_name |-> subplan_name,
   requirement_ids |-> requirement_ids, conditions |-> Conditions(context_list),
   requirement_key |-> requirement_key, block_title |-> block_title,
   context |-> Append(context_list,
                      [requirement |-> [label |-> requirement_name,
                                        num_courses |-> num_courses]])]

map_courses(requirement_ids, block_title, context_list, requirement_dict, g0, mogrify) ==
  LET g1 == Called([g0 EXCEPT !.requirement_key = NextKey(@)], context_list)
      requirement_key == g1.requirement_key
      plan_info == context_list[1].block_info.plan_info
      enclosing_requirement_ids == EnclosingRequirementIds(context_list)
      matching == {i \in DOMAIN plan_info.subplans :
                     plan_info.subplans[i].subplan_block_info.requirement_id
                       \in SeqToSet(enclosing_requirement_ids)}
      subplan_name == IF matching = {} THEN ""
                      ELSE plan_info.subplans[MinOf(matching)].subplan_name
      g2 == IF enclosing_requirement_ids # << >> /\ matching = {}
            THEN WriteLine(g1, "subplans_file",
                           <<Head(requirement_ids), "not subplan of the plan">>)
            ELSE g1
      has_course_list == "course_list" \in DOMAIN requirement_dict
      course_list == IF has_course_list THEN requirement_dict.course_list
                     ELSE requirement_dict
      requirement_info == IF has_course_list THEN requirement_dict
                          ELSE [label |-> "Unnamed Requirement"]
      canonical_course_list == mogrify[course_list].return_list
      num_courses == Len(canonical_course_list)
      g3 == [g2 EXCEPT !.mapping_file =
               @ \o MappingRows(requirement_key, canonical_course_list)]
      requirement_name == RequirementName(requirement_info.label, canonical_course_list[1])
      named == [context_list EXCEPT ![Len(context_list)] =
                  SetItem(@, "requirement_name", requirement_name)]
  IN  IF ~has_course_list /\ "scribed_courses" \notin DOMAIN requirement_dict
      THEN \* course_list['scribed_courses'], line 429
           [g |-> MapCoursesCall(g0, Raise(g2, "KeyError"), "no_course_list", 0),
            context_list |-> context_list]
      ELSE IF course_list = << >>
      THEN \* assert course_dict in mogrify_course_list()
           [g |-> MapCoursesCall(g0, Raise(g2, "AssertionError"), "empty_course_list", 0),
            context_list |-> context_list]
      ELSE IF mogrify[course_list].aborted
      THEN [g |-> MapCoursesCall(g0, Raise(g2, "NameError"), "NameError", 0),
            context_list |-> context_list]
      ELSE IF num_courses = 0
      THEN [g |-> MapCoursesCall(g0,
                    WriteLine(g2, "no_courses_file",
                              <<Institution, LastChar(Last(requirement_ids))>>),
                    "no_courses", 0),
            context_list |-> context_list]
      ELSE IF "label" \notin DOMAIN requirement_info
      THEN \* requirement_info['label'], line 463, after the courses are mapped
           [g |-> MapCoursesCall(g0, Raise(g3, "KeyError"), "no_label", num_courses),
            context_list |-> context_list]
      ELSE [g |-> Templated(
                    MapCoursesCall(g0,
                      [g3 EXCEPT !.requirements_file =
                         Append(@, RequirementRow(plan_info, subplan_name, requirement_ids,
                                                  requirement_key, block_title, named,
                                                  requirement_name, num_courses))],
                      "mapped", num_courses),
                    requirement_info.label, canonical_course_list[1]),
            context_list |-> named]


(***************************************************************************)
(* The queries on the requirement_blocks table.                            *)
(***************************************************************************)
\* The columns the block queries select
BlockInfoRow(requirement_id) ==
  LET row == requirement_blocks[requirement_id]
  IN  [institution |-> row.institution, requirement_id |-> row.requirement_id,
       block_type |-> row.block_type, block_value |-> row.block_value,
       block_title |-> row.block_title, major1 |-> row.major1]

\* where term_info is not null and institution = %s and block_type = %s and
\* block_value = %s (lines 1069-1077 and 1504-1512); the group query adds
\* period_stop ~* '^9' (lines 1350-1363)
ActiveBlocks(block_type, block_value, current_only) ==
  {id \in DOMAIN requirement_blocks :
     /\ requirement_blocks[id].term_info # "null"
     /\ requirement_blocks[id].institution = Institution
     /\ requirement_blocks[id].block_type = block_type
     /\ requirement_blocks[id].block_value = block_value
     /\ current_only => requirement_blocks[id].period_stop = "99999999"}

\* where institution = %s and requirement_id = %s and period_stop ~* '^9'
\* (lines 1194-1201 and 1557-1570)
CurrentBlocks(requirement_id) ==
  {id \in DOMAIN requirement_blocks :
     /\ requirement_blocks[id].institution = Institution
     /\ id = requirement_id
     /\ requirement_blocks[id].period_stop = "99999999"}

\* The target of a block reference: << >> for None.  rows are the ids the query
\* found and major1_values the values a major1 has to be among when the query
\* found several (lines 1079-1101, 1365-1383, 1514-1532)
TargetBlock(rows, major1_values) ==
  LET matching_rows == {id \in rows : requirement_blocks[id].major1 \in major1_values}
  IN  IF Cardinality(rows) = 0 THEN << >>
      ELSE IF Cardinality(rows) > 1
           THEN IF Cardinality(matching_rows) = 1
                THEN <<BlockInfoRow(CHOOSE id \in matching_rows : TRUE)>>
                ELSE << >>
           ELSE <<BlockInfoRow(CHOOSE id \in rows : TRUE)>>

\* What a block reference that finds no target prints to fail_file
TargetFailure(g, requirement_id, rows, where) ==
  IF Cardinality(rows) = 0
  THEN WriteLine(g, "fail_file", <<requirement_id, where, "no active blocks">>)
  ELSE WriteLine(g, "fail_file", <<requirement_id, where, "major1 matches">>)

\* block_args[2].lower().startswith('mhc')
IsHonorsCollege(block_value) == block_value = "MHC-HONORS"

(***************************************************************************)
(* context_conditions() and mogrify_expression(), course_mapper_utils.py   *)
(* lines 701-778, as tables over the conditions that occur.  The result of *)
(* context_conditions() is kept as the list that ' && ' joins.             *)
(***************************************************************************)
ConditionStrs == {"CONC = S1", "(CONC = S2)", "X"}

mogrify_expression(expression, de_morgan) ==
  CASE expression = "CONC = S1" -> IF de_morgan THEN "CON != S1" ELSE "CON == S1"
    [] expression = "(CONC = S2)" -> IF de_morgan THEN "(CON != S2)" ELSE "(CON == S2)"
    [] OTHER -> ""

\* The conditions of one frame
FrameConditions(frame) ==
  LET true_keys == DOMAIN frame \cap {"if", "if_true"}
      false_keys == DOMAIN frame \cap {"else", "if_false"}
      condition ==
        IF true_keys # {}
        THEN mogrify_expression(frame[CHOOSE k \in true_keys : TRUE], FALSE)
        ELSE IF false_keys # {}
             THEN mogrify_expression(frame[CHOOSE k \in false_keys : TRUE], TRUE)
             ELSE ""
  IN  IF condition = "" THEN << >> ELSE <<condition>>

RECURSIVE context_conditions(_)
context_conditions(context_list) ==
  IF context_list = << >> THEN << >>
  ELSE FrameConditions(Head(context_list)) \o context_conditions(Tail(context_list))

\* re.findall(r'CON == (\S+)', condition): \S+ runs on to the next blank
FindConcentration(condition) ==
  CASE condition = "CON == S1" -> <<"S1">>
    [] condition = "(CON == S2)" -> <<"S2)">>
    [] OTHER -> << >>

RECURSIVE EligibleConcentrations(_)
EligibleConcentrations(conditions) ==
  IF conditions = << >> THEN << >>
  ELSE FindConcentration(Head(conditions)) \o EligibleConcentrations(Tail(conditions))

\* get_restrictions(), course_mapper_utils.py lines 108-133.  << >> is the empty dict.
get_restrictions(node) ==
  LET with_transfer == IF "maxtransfer" \in DOMAIN node
                       THEN SetItem(<< >>, "maxtransfer", node.maxtransfer)
                       ELSE << >>
  IN  IF "mingrade" \in DOMAIN node
      THEN SetItem(with_transfer, "mingrade", letter_grade(node.mingrade.number))
      ELSE with_transfer

\* Lines 1035-1046: the dict of requirement_context
ContextDict(requirement_type, requirement_value) ==
  IF "label" \in DOMAIN requirement_value
  THEN SetItem(get_restrictions(requirement_value), "requirement_name",
               requirement_value.label)
  ELSE IF requirement_type # "conditional"
       THEN SetItem(get_restrictions(requirement_value), "requirement_name",
                    "Unnamed Requirement")
       ELSE get_restrictions(requirement_value)


(***************************************************************************)
(* traverse_body(), lines 950-1715, and body_conditional(), lines 322-345. *)
(* Both return [g, context_list]: context_list is the list object they     *)
(* were given, as remarks and conditionals left it.  depth counts the      *)
(* frames of process_block(), traverse_body() and body_conditional() on    *)
(* the call stack; MaxDepth stands for the interpreter's recursion limit,  *)
(* past which a call raises RecursionError.                                *)
(***************************************************************************)
MaxDepth == 9

Result(g, context_list) == [g |-> g, context_list |-> context_list]

\* Reference._make((caller_frame.name, caller_frame.lineno))
Reference(name, lineno) == [name |-> name, lineno |-> lineno]

\* Lines 983-1005: what traverse_body() derives from its context_list
Prelude(context_list) ==
  LET nested_blocks == NestedBlocks(context_list)
      block_info == Last(nested_blocks)
  IN  [nested_block_values |->
         Dedupe([i \in 1..Len(nested_blocks) |-> nested_blocks[i].block_value], {}),
       requirement_ids |->
         Dedupe([i \in 1..Len(nested_blocks) |-> nested_blocks[i].requirement_id], {}),
       block_info |-> block_info,
       requirement_id |-> block_info.requirement_id,
       block_type |-> block_info.block_type,
       block_value |-> block_info.block_value,
       block_title |-> block_info.block_title]

RECURSIVE traverse_body(_, _, _, _, _)
RECURSIVE TraverseItems(_, _, _, _, _)
RECURSIVE body_conditional(_, _, _, _, _)
RECURSIVE process_block(_, _, _, _, _, _, _)
RECURSIVE BlocktypeLoop(_, _, _, _, _, _)
RECURSIVE GroupLoop(_, _, _, _, _, _, _, _)
RECURSIVE SubsetLoop(_, _, _, _, _, _)

\* traverse_body(node, context_list) for a node that is a list, lines 1008-1010
TraverseList(node, context_list, g, mogrify, depth) ==
  IF depth > MaxDepth THEN Result(Raise(g, "RecursionError"), context_list)
  ELSE TraverseItems(node, context_list, Called(g, context_list), mogrify, depth + 1)

\* for item in node: traverse_body(item, context_list)
TraverseItems(items, context_list, g, mogrify, depth) ==
  IF items = << >> \/ g.raised # "" THEN Result(g, context_list)
  ELSE LET done == traverse_body(Head(items), context_list, g, mogrify, depth)
       IN  TraverseItems(Tail(items), done.context_list, done.g, mogrify, depth)

\* context_list.pop()
Pop(context_list) == SubSeq(context_list, 1, Len(context_list) - 1)

\* History: a body_conditional() that was called with the stack called_with has
\* returned; the stack was after_true when the true leg was done, and the false
\* leg, if there is one, began on that stack with begin_false pushed
ConditionalCall(returned, called_with, begin_true, begin_false, after_true, has_false) ==
  IF returned.g.raised # "" THEN returned
  ELSE [returned EXCEPT !.g.conditionals =
          Append(@, [called_with |-> called_with, begin_true |-> begin_true,
                     after_true |-> after_true,
                     false_with |-> IF has_false THEN <<Append(after_true, begin_false)>>
                                    ELSE << >>,
                     returned |-> returned.context_list])]

\* Lines 322-345
body_conditional(context_list, conditional_dict, g, mogrify, depth) ==
  LET condition_str == conditional_dict.condition_str
      begin_true == IF args.concise_conditionals THEN [if |-> condition_str]
                    ELSE [if_true |-> condition_str]
      begin_false == IF args.concise_conditionals THEN [else |-> ""]
                     ELSE [if_false |-> condition_str]
      traversed_true == TraverseList(conditional_dict.if_true,
                                     Append(context_list, begin_true), g, mogrify, depth + 1)
      after_true == IF conditional_dict.if_true = << >> THEN Result(g, context_list)
                    ELSE IF traversed_true.g.raised # "" THEN traversed_true
                    ELSE Result(traversed_true.g, Pop(traversed_true.context_list))
      traversed_false == TraverseList(conditional_dict.if_false,
                                      Append(after_true.context_list, begin_false),
                                      after_true.g, mogrify, depth + 1)
  IN  IF depth > MaxDepth THEN Result(Raise(g, "RecursionError"), context_list)
      ELSE ConditionalCall(
             IF after_true.g.raised # "" \/ "if_false" \notin DOMAIN conditional_dict
             THEN after_true
             ELSE IF traversed_false.g.raised = "KeyError"
             THEN \* except KeyError: pass, which leaves context_list as the leg left it
                  Result(Raise(traversed_false.g, ""), traversed_false.context_list)
             ELSE IF traversed_false.g.raised # "" THEN traversed_false
             ELSE Result(traversed_false.g, Pop(traversed_false.context_list)),
             context_list, begin_true, begin_false, after_true.context_list,
             "if_false" \in DOMAIN conditional_dict)

\* History: a block reference of a body, a group or a subset (where) found the
\* active blocks rows while the block-entry frames of the stack held the
\* block_values nested_block_values, and took target_block (<< >> for None)
Resolved(g, where, rows, nested_block_values, target_block) ==
  [g EXCEPT !.resolutions =
     Append(@, [where |-> where, rows |-> rows,
                nested_block_values |-> SeqToSet(nested_block_values),
                target |-> IF target_block = << >> THEN << >>
                           ELSE <<target_block[1].requirement_id>>,
                fail_rows |-> Len(g.fail_file), callers |-> Len(g.reference_callers)])]

\* case 'block', lines 1050-1107
BodyBlock(env, requirement_value, context_list, requirement_context, g, mogrify, depth) ==
  LET rows == ActiveBlocks(requirement_value.block_type, requirement_value.block_value, FALSE)
      target_block == TargetBlock(rows, SeqToSet(env.nested_block_values))
      resolved == Resolved(g, "Body", rows, env.nested_block_values, target_block)
      processed == process_block(target_block[1], context_list \o requirement_context, << >>,
                                 Reference("traverse_body", 1104), resolved, mogrify,
                                 depth + 1)
  IN  IF requirement_value.number # 1
      THEN WriteLine(g, "todo_file", <<env.requirement_id, "Body block: num_required">>)
      ELSE IF IsHonorsCollege(requirement_value.block_value) THEN g
      ELSE IF target_block = << >>
      THEN TargetFailure(resolved, env.requirement_id, rows, "Body block")
      ELSE IF processed.raised # "" THEN processed
      ELSE WriteLine(processed, "log_file", <<env.requirement_id, "Body block">>)

\* The requirement_ids of the process_block() calls of line 1163 recorded from
\* entry first on whose stack has call_depth frames
RECURSIVE LoopCalls(_, _, _)
LoopCalls(reference_callers, first, call_depth) ==
  IF first > Len(reference_callers) THEN << >>
  ELSE (IF /\ reference_callers[first].lineno = 1163
           /\ Len(reference_callers[first].context_list) = call_depth
        THEN <<reference_callers[first].requirement_id>>
        ELSE << >>)
       \o LoopCalls(reference_callers, first + 1, call_depth)

\* History: a blocktype reference of the block env.requirement_id was met with
\* the stack context_list; before and after are the globals around lines 1109-1167
Blocktyped(before, after, env, requirement_value, context_list, requirement_context) ==
  [after EXCEPT !.blocktypes =
     Append(@, [enclosing |-> env.requirement_id,
                has_plan_info |-> "plan_info" \in DOMAIN env.block_info,
                active_subplans |->
                  IF "plan_info" \in DOMAIN env.block_info
                  THEN [i \in DOMAIN env.block_info.plan_info.subplans |->
                          env.block_info.plan_info.subplans[i].subplan_name]
                  ELSE << >>,
                subplan_blocks |->
                  IF "plan_info" \in DOMAIN env.block_info
                  THEN [i \in DOMAIN env.block_info.plan_info.subplans |->
                          env.block_info.plan_info.subplans[i].subplan_block_info.requirement_id]
                  ELSE << >>,
                block_type |-> requirement_value.block_type,
                context_list |-> context_list,
                called |-> LoopCalls(after.reference_callers,
                                     Len(before.reference_callers) + 1,
                                     Len(context_list) + Len(requirement_context)),
                logged |-> Len(after.fail_file) + Len(after.todo_file)
                             > Len(before.fail_file) + Len(before.todo_file),
                raised |-> after.raised])]

\* Lines 1160-1164
BlocktypeLoop(active_subplans, eligible_concentrations, context_list, g, mogrify, depth) ==
  IF active_subplans = << >> \/ g.raised # "" THEN g
  ELSE LET active_subplan == Head(active_subplans)
       IN  BlocktypeLoop(Tail(active_subplans), eligible_concentrations, context_list,
             IF \/ eligible_concentrations = << >>
                \/ active_subplan.subplan_name \in SeqToSet(eligible_concentrations)
             THEN process_block(active_subplan.subplan_block_info, context_list, << >>,
                                Reference("traverse_body", 1163), g, mogrify, depth + 1)
             ELSE g,
             mogrify, depth)

\* case 'blocktype', lines 1109-1167
BodyBlocktype(env, requirement_value, context_list, requirement_context, g, mogrify, depth) ==
  LET active_subplans == env.block_info.plan_info.subplans
      g1 == IF Len(active_subplans) < 1
            THEN WriteLine(g, "fail_file",
                           <<env.requirement_id, "Body blocktype: plan has no active subplans">>)
            ELSE g
      g2 == IF requirement_value.block_type # "CONC"
            THEN WriteLine(g1, "todo_file",
                           <<env.requirement_id, "Body blocktype: required blocktype (ignored)">>)
            ELSE g1
      eligible_concentrations == EligibleConcentrations(context_conditions(context_list))
      g3 == IF Len(eligible_concentrations) > 1
            THEN WriteLine(g2, "log_file",
                           <<env.requirement_id, "Body blocktype with multiple conditions">>)
            ELSE g2
      g4 == IF requirement_value.number > 1
            THEN WriteLine(g3, "log_file",
                           <<env.requirement_id, "Body blocktype: subplans required">>)
            ELSE g3
      looped == BlocktypeLoop(active_subplans, eligible_concentrations,
                              context_list \o requirement_context, g4, mogrify, depth)
  IN  IF "plan_info" \notin DOMAIN env.block_info
      THEN \* len(active_subplans), line 1127: the name was never bound
           Raise(WriteLine(g, "fail_file",
                           <<env.requirement_id, "Body blocktype: from block">>),
                 "UnboundLocalError")
      ELSE IF Len(active_subplans) < 1 \/ requirement_value.block_type # "CONC" THEN g2
      ELSE IF looped.raised # "" THEN looped
      ELSE WriteLine(looped, "log_file", <<env.requirement_id, "Block blocktype">>)


\* History: a class_credit of a body, a group or a subset (where) was interpreted;
\* before and after are the globals around it
ClassCredited(before, after, where, value) ==
  [after EXCEPT !.class_credits =
     @ \cup {[where |-> where,
              course_list |-> IF "course_list" \notin DOMAIN value THEN "absent"
                              ELSE IF value.course_list = << >> THEN "empty"
                              ELSE "present",
              requirements_rows |->
                Len(after.requirements_file) - Len(before.requirements_file),
              mapping_rows |-> Len(after.mapping_file) - Len(before.mapping_file),
              raised |-> after.raised]}]

\* case 'class_credit', lines 1169-1179: a KeyError out of map_courses() is taken
\* for a class_credit without a course list
BodyClassCredit(env, requirement_value, context_list, requirement_context, g, mogrify) ==
  LET mapped == map_courses(env.requirement_ids, env.block_title,
                            context_list \o requirement_context, requirement_value,
                            WriteLine(g, "log_file", <<env.requirement_id, "Body class_credit">>),
                            mogrify).g
  IN  IF "course_list" \notin DOMAIN requirement_value
      THEN WriteLine(g, "log_file", <<env.requirement_id, "Body class_credit">>)
      ELSE IF requirement_value.course_list = << >>
      THEN \* if course_list := requirement_value['course_list'], line 1174
           WriteLine(g, "log_file", <<env.requirement_id, "Body class_credit">>)
      ELSE IF mapped.raised = "KeyError" THEN Raise(mapped, "") ELSE mapped

\* case 'course_list_rule', lines 1254-1263
BodyCourseListRule(env, requirement_value, context_list, requirement_context, g, mogrify) ==
  LET mapped == map_courses(env.requirement_ids, env.block_title,
                            context_list \o requirement_context, requirement_value, g,
                            mogrify).g
  IN  IF "course_list" \notin DOMAIN requirement_value
      THEN WriteLine(g, "fail_file",
                     <<env.requirement_id, "Body course_list_rule w/o a Course List">>)
      ELSE IF mapped.raised # "" THEN mapped
      ELSE WriteLine(mapped, "log_file", <<env.requirement_id, "Body course_list_rule">>)

\* The frames of context_list that make a copy_rules reference circular: the body
\* case looks for the target in context_dict['requirement_id'] (lines 1210-1217),
\* the subset case in context_dict['block_info']['requirement_id'] (lines 1579-1587)
CircularFrames(where, context_list, target_requirement_id) ==
  IF where = "Body"
  THEN {i \in DOMAIN context_list :
          /\ "requirement_id" \in DOMAIN context_list[i]
          /\ context_list[i].requirement_id = target_requirement_id}
  ELSE {i \in DOMAIN context_list :
          /\ "block_info" \in DOMAIN context_list[i]
          /\ context_list[i].block_info.requirement_id = target_requirement_id}

\* The block whose body_list holds the node in hand: the innermost block that was
\* entered or spliced in
BodyInHand(context_list) ==
  LET frames == {i \in DOMAIN context_list :
                   \/ "block_info" \in DOMAIN context_list[i]
                   \/ "institution" \in DOMAIN context_list[i]}
      innermost == context_list[CHOOSE i \in frames : \A j \in frames : j <= i]
  IN  IF "block_info" \in DOMAIN innermost THEN innermost.block_info.requirement_id
      ELSE innermost.requirement_id

\* History: the body of target_requirement_id is spliced in by a copy_rules of
\* a body or of a subset (where) that was met with the stack context_list
Spliced(g, where, target_requirement_id, context_list) ==
  [g EXCEPT !.splices = Append(@, [where |-> where, target |-> target_requirement_id,
                                   context_list |-> context_list])]

\* case 'copy_rules' of the body (lines 1187-1247) and of a subset (lines 1550-1615)
CopyRules(where, env, target_requirement_id, context_list, requirement_context, g, mogrify, depth) ==
  LET circular == CircularFrames(where, context_list, target_requirement_id)
      row == requirement_blocks[target_requirement_id]
      parse_tree == row.parse_tree
      local_dict == [institution |-> Institution, requirement_id |-> target_requirement_id,
                     requirement_name |-> row.block_title]
      spliced == TraverseList(parse_tree.body_list,
                              context_list \o requirement_context \o <<local_dict>>,
                              Spliced(Interpreted(g, target_requirement_id), where,
                                      target_requirement_id, context_list),
                              mogrify, depth + 1).g
  IN  IF Cardinality(CurrentBlocks(target_requirement_id)) # 1
      THEN WriteLine(g, "fail_file",
                     <<env.requirement_id, where, "copy_rules: not current",
                       target_requirement_id>>)
      ELSE IF circular # {}
      THEN [g EXCEPT !.fail_file =
              @ \o [i \in 1..Cardinality(circular) |->
                      <<env.requirement_id, where, "circular copy_rules">>],
                     !.circular_references =
                        Append(@, [from |-> BodyInHand(context_list),
                                   to |-> target_requirement_id])]
      ELSE IF "error" \in DOMAIN parse_tree
      THEN WriteLine(g, "fail_file",
                     <<env.requirement_id, where, "copy_rules: error", target_requirement_id>>)
      ELSE IF "body_list" \notin DOMAIN parse_tree
      THEN \* exit() in the body case, an uncaught KeyError in the subset case
           Raise(g, IF where = "Body" THEN "SystemExit" ELSE "KeyError")
      ELSE IF parse_tree.body_list = << >>
      THEN WriteLine(g, "fail_file",
                     <<env.requirement_id, where, "copy_rules: empty body_list",
                       target_requirement_id>>)
      ELSE IF spliced.raised # "" THEN spliced
      ELSE WriteLine(spliced, "log_file", <<env.requirement_id, where, "copy_rules">>)

(***************************************************************************)
(* case 'group_requirement', lines 1276-1441.                              *)
(***************************************************************************)
\* course_mapper_utils.py lines 17-18
NumberNames ==
  <<"none", "one", "two", "three", "four", "five", "six", "seven", "eight", "nine", "ten",
    "eleven", "twelve">>

\* number_names[n].lower() if n < len(number_names) else f'{n:,}'
NumberStr(n) == IF n < Len(NumberNames) THEN NumberNames[n + 1] ELSE ToString(n)

\* format_group_description(), course_mapper_utils.py lines 48-76
format_group_description(num_groups, num_required) ==
  LET num_required_str == NumberStr(num_required)
      s == IF num_groups = 1 THEN "" ELSE "s"
      num_groups_str == NumberStr(num_groups)
      prefix == IF num_required = num_groups
                THEN IF num_required = 1 THEN "The"
                     ELSE IF num_required = 2 THEN "Both of the" ELSE "All of the"
                ELSE IF num_required = 1 /\ num_groups = 2 THEN "Either of the"
                ELSE "Any " \o num_required_str \o " of the"
  IN  prefix \o " following " \o num_groups_str \o " group" \o s

\* Line 1298
IgnoreWords ==
  NumberNames \o <<"and", "area", "areas", "choose", "following", "from", "group", "groups",
                   "module", "modules", "of", "option", "options", "or", "select",
                   "selected", "selct", "slect", "sequence", "sequences", "set", "study",
                   "the">>

\* Lines 1305-1306: [word.lower() for word in re.sub(r'[\d,:]+', ' ', word_str).split()],
\* for the names that occur
LabelWords(word_str) ==
  CASE word_str = "Select 2" -> <<"select">>
    [] word_str = "Two of these" -> <<"two", "of", "these">>
    [] word_str = "Choose 1 of the following set of sequences:" ->
         <<"choose", "of", "the", "following", "set", "of", "sequences">>
    [] word_str = "Unnamed Requirement" -> <<"unnamed", "requirement">>
    [] OTHER -> <<word_str>>

\* words.index(ignore_word): the first position of the word, 0 for ValueError
FirstIndex(words, ignore_word) ==
  IF \E i \in DOMAIN words : words[i] = ignore_word
  THEN CHOOSE i \in DOMAIN words :
         /\ words[i] = ignore_word
         /\ \A j \in 1..(i - 1) : words[j] # ignore_word
  ELSE 0

\* Lines 1307-1311: for every ignore_word, del words[words.index(ignore_word)] unless
\* ValueError.  No ignore_word is listed twice, so what the loop deletes is the first
\* occurrence of every ignore_word the name holds
DelIgnoreWords(words, ignore_words) ==
  LET deleted == {FirstIndex(words, ignore_words[k]) : k \in DOMAIN ignore_words}
      kept == {i \in DOMAIN words : i \notin deleted}
  IN  [i \in 1..Cardinality(kept) |->
         words[CHOOSE j \in kept : Cardinality({k \in kept : k < j}) = i - 1]]

\* Lines 1298-1314: no word of the name is left once the ignore_words are taken out
OnlyIgnoreWords(requirement_name) ==
  DelIgnoreWords(LabelWords(requirement_name), IgnoreWords) = << >>

\* Lines 1292-1319
GroupContextDict(context_dict, requirement_value) ==
  LET num_groups == Len(requirement_value.group_list)
      counted == SetItem(SetItem(context_dict, "num_groups", num_groups),
                         "num_required", requirement_value.number)
  IN  IF OnlyIgnoreWords(context_dict.requirement_name)
      THEN SetItem(counted, "requirement_name",
                   format_group_description(num_groups, requirement_value.number))
      ELSE counted

RECURSIVE GroupPairs(_, _, _)
\* The (group_context, requirement) pairs of the loops of lines 1321-1332
GroupPairs(group_list, group_num, num_groups) ==
  IF group_list = << >> THEN << >>
  ELSE [i \in 1..Len(Head(group_list)) |->
          [group_context |-> [group_number |-> group_num + 1,
                              group_number_str |-> <<group_num + 1, "of", num_groups>>],
           requirement |-> Head(group_list)[i]]]
       \o GroupPairs(Tail(group_list), group_num + 1, num_groups)

\* The body of the loops, lines 1333-1439, for one requirement of one group
GroupRequirementItem(pair, env, requirement_value, context_list, requirement_context, g, mogrify, depth) ==
  LET key == pair.requirement.requirement_type
      value == pair.requirement.requirement_value
      rows == ActiveBlocks(value.block_type, value.block_value, TRUE)
      target_block == TargetBlock(rows, {value.block_value})
      resolved == Resolved(g, "Group", rows, env.nested_block_values, target_block)
      processed == process_block(target_block[1], context_list \o requirement_context, << >>,
                                 Reference("traverse_body", 1386), resolved, mogrify,
                                 depth + 1)
      mapped == map_courses(env.requirement_ids, env.block_title,
                            context_list \o requirement_context \o <<pair.group_context>>
                              \o <<[requirement_name |-> value.label]>>,
                            value, g, mogrify).g
      rule_mapped == map_courses(env.requirement_ids, env.block_title,
                                 context_list \o <<pair.group_context>>, value, g, mogrify).g
      nested == traverse_body(pair.requirement,
                              context_list \o requirement_context \o <<pair.group_context>>,
                              WriteLine(g, "log_file",
                                        <<env.requirement_id, "Body nested group_requirement">>),
                              mogrify, depth + 1).g
  IN  CASE key = "block" ->
             IF "label" \notin DOMAIN value
             THEN \* value['label'], line 1337
                  Raise(g, "KeyError")
             ELSE IF value.number > 1
             THEN WriteLine(g, "todo_file", <<env.requirement_id, "Group block: num_required">>)
             ELSE IF target_block = << >>
             THEN TargetFailure(resolved, env.requirement_id, rows, "Group block")
             ELSE IF processed.raised # "" THEN processed
             ELSE WriteLine(processed, "log_file", <<env.requirement_id, "Group block">>)
        [] key = "blocktype" ->
             WriteLine(g, "todo_file", <<env.requirement_id, "Group blocktype (ignored)">>)
        [] key = "class_credit" ->
             ClassCredited(g,
               IF "label" \notin DOMAIN value
               THEN WriteLine(g, "log_file", <<env.requirement_id, "Group class_credit">>)
               ELSE IF mapped.raised \notin {"", "KeyError"} THEN mapped
               ELSE WriteLine(Raise(mapped, ""), "log_file",
                              <<env.requirement_id, "Group class_credit">>),
               "Group", value)
        [] key = "course_list_rule" ->
             \* the test is on requirement_value, the group requirement
             IF "course_list" \notin DOMAIN requirement_value
             THEN WriteLine(g, "fail_file",
                            <<env.requirement_id, "Group course_list_rule w/o a Course List">>)
             ELSE IF rule_mapped.raised # "" THEN rule_mapped
             ELSE WriteLine(rule_mapped, "log_file",
                            <<env.requirement_id, "Group course_list_rule">>)
        [] key = "group_requirement" -> nested
        [] key = "noncourse" ->
             WriteLine(g, "log_file", <<env.requirement_id, "Group noncourse (ignored)">>)
        [] key = "rule_complete" ->
             WriteLine(g, "todo_file", <<env.requirement_id, "Group rule_complete">>)
        [] OTHER -> Raise(g, "SystemExit")

\* The stacks of the process_block() calls of line 1386 recorded from entry
\* first on whose stack has call_depth frames
RECURSIVE GroupBlockCalls(_, _, _)
GroupBlockCalls(reference_callers, first, call_depth) ==
  IF first > Len(reference_callers) THEN << >>
  ELSE (IF /\ reference_callers[first].lineno = 1386
           /\ Len(reference_callers[first].context_list) = call_depth
        THEN <<reference_callers[first].context_list>>
        ELSE << >>)
       \o GroupBlockCalls(reference_callers, first + 1, call_depth)

\* History: one requirement of one group was interpreted, with remaining more
\* to come in the group requirement; before and after are the globals around
\* lines 1333-1439
GroupRule(before, after, pair, remaining, context_list, mogrify) ==
  LET value == pair.requirement.requirement_value
  IN  [after EXCEPT !.group_rules =
         Append(@, [key |-> pair.requirement.requirement_type,
                    group_context |-> pair.group_context,
                    remaining |-> remaining,
                    stack_depth |-> Len(context_list),
                    resolvable |->
                      /\ pair.requirement.requirement_type
                           \in {"class_credit", "course_list_rule"}
                      /\ "label" \in DOMAIN value
                      /\ "course_list" \in DOMAIN value
                      /\ value.course_list # << >>
                      /\ ~mogrify[value.course_list].aborted
                      /\ mogrify[value.course_list].return_list # << >>,
                    contexts |->
                      [i \in 1..(Len(after.requirements_file) - Len(before.requirements_file))
                         |-> after.requirements_file[Len(before.requirements_file) + i].context],
                    block_calls |-> GroupBlockCalls(after.reference_callers,
                                                    Len(before.reference_callers) + 1,
                                                    Len(context_list) + 1),
                    raised |-> after.raised])]

GroupLoop(pairs, env, requirement_value, context_list, requirement_context, g, mogrify, depth) ==
  IF pairs = << >> \/ g.raised # "" THEN g
  ELSE GroupLoop(Tail(pairs), env, requirement_value, context_list, requirement_context,
                 GroupRule(g,
                           GroupRequirementItem(Head(pairs), env, requirement_value,
                                                context_list, requirement_context, g, mogrify,
                                                depth),
                           Head(pairs), Len(pairs) - 1, context_list, mogrify),
                 mogrify, depth)

\* History: a group_requirement whose context_dict held the scribed name was
\* given the frame group_context_dict
GroupNamed(g, context_dict, group_context_dict) ==
  [g EXCEPT !.group_names =
     @ \cup {[word_str |-> context_dict.requirement_name,
              num_groups |-> group_context_dict.num_groups,
              num_required |-> group_context_dict.num_required,
              requirement_name |-> group_context_dict.requirement_name]}]

GroupRequirement(env, requirement_value, context_list, context_dict, g, mogrify, depth) ==
  LET looped == GroupLoop(GroupPairs(requirement_value.group_list, 0,
                                     Len(requirement_value.group_list)),
                          env, requirement_value, context_list,
                          <<GroupContextDict(context_dict, requirement_value)>>,
                          GroupNamed(g, context_dict,
                                     GroupContextDict(context_dict, requirement_value)),
                          mogrify, depth)
  IN  IF looped.raised # "" THEN looped
      ELSE WriteLine(looped, "log_file", <<env.requirement_id, "Body group_requirement">>)


(***************************************************************************)
(* case 'subset', lines 1443-1686.  st is [g, requirement_context,         *)
(* subset_context]: map_courses() assigns the requirement's name into the  *)
(* dict of requirement_context, and proxy advice goes into the dict of     *)
(* subset_context, and both dicts serve the requirements that follow.      *)
(***************************************************************************)
\* Lines 1449-1473
SubsetContextDict(requirement_value) ==
  LET restricted == get_restrictions(requirement_value)
      named == SetItem(restricted, "requirement_name",
                       IF "label" \in DOMAIN requirement_value THEN requirement_value.label
                       ELSE "No requirement name available")
      remarked == IF "remark" \in DOMAIN requirement_value
                  THEN SetItem(named, "remark", requirement_value.remark) ELSE named
  IN  IF "proxy_advice" \in DOMAIN requirement_value
      THEN SetItem(remarked, "proxy_advice", requirement_value.proxy_advice)
      ELSE remarked

\* Lines 1636-1642
SubsetLocalDict(rule_dict) ==
  IF "label" \in DOMAIN rule_dict
  THEN SetItem(get_restrictions(rule_dict), "requirement_name", rule_dict.label)
  ELSE get_restrictions(rule_dict)

\* The body of the loop, lines 1481-1686, for one requirement of the subset
SubsetItem(requirement, env, context_list, st, mogrify, depth) ==
  LET key == requirement.requirement_type
      rule == requirement.requirement_value
      g == st.g
      WithG(new_g) == [st EXCEPT !.g = new_g]
      rows == ActiveBlocks(rule.block_type, rule.block_value, FALSE)
      target_block == TargetBlock(rows, {env.block_value})
      resolved == Resolved(g, "Subset", rows, env.nested_block_values, target_block)
      processed == process_block(target_block[1], context_list \o st.requirement_context,
                                 << >>, Reference("traverse_body", 1535), resolved, mogrify,
                                 depth + 1)
      conditional == body_conditional(context_list \o st.subset_context, rule,
                                      WriteLine(g, "log_file",
                                                <<env.requirement_id, "Subset conditional">>),
                                      mogrify, depth + 1).g
      rule_mapped == map_courses(env.requirement_ids, env.block_title,
                                 context_list \o st.requirement_context, rule, g, mogrify)
      g_labelled == IF "label" \in DOMAIN rule THEN g
                    ELSE WriteLine(g, "todo_file",
                                   <<env.requirement_id, "Subset class_credit with no label">>)
      mapped == map_courses(env.requirement_ids, env.block_title,
                            context_list \o st.subset_context \o <<SubsetLocalDict(rule)>>,
                            rule, g_labelled, mogrify).g
      nested == traverse_body(requirement, context_list \o st.subset_context, g, mogrify,
                              depth + 1).g
  IN  CASE key = "block" ->
             IF rule.number # 1
             THEN WithG(WriteLine(g, "fail_file",
                                  <<env.requirement_id, "Subset block: num_required">>))
             ELSE IF "label" \notin DOMAIN rule
             THEN \* rule['label'], line 1493
                  WithG(Raise(g, "KeyError"))
             ELSE IF target_block = << >>
             THEN WithG(TargetFailure(resolved, env.requirement_id, rows, "Subset block"))
             ELSE IF processed.raised # "" THEN WithG(processed)
             ELSE WithG(WriteLine(processed, "log_file",
                                  <<env.requirement_id, "Subset block">>))
        [] key = "blocktype" ->
             WithG(WriteLine(g, "todo_file",
                             <<env.requirement_id, "Subset blocktype (ignored)">>))
        [] key = "conditional" -> WithG(conditional)
        [] key = "copy_rules" ->
             WithG(CopyRules("Subset", env, rule.requirement_id, context_list,
                             st.requirement_context, g, mogrify, depth))
        [] key = "course_list_rule" ->
             IF "course_list" \notin DOMAIN rule
             THEN WithG(WriteLine(g, "fail_file",
                                  <<env.requirement_id,
                                    "Subset course_list_rule w/o a course_list">>))
             ELSE IF rule_mapped.g.raised # "" THEN WithG(rule_mapped.g)
             ELSE [st EXCEPT
                     !.g = WriteLine(rule_mapped.g, "log_file",
                                     <<env.requirement_id, "Subset course_list_rule">>),
                     !.requirement_context = <<Last(rule_mapped.context_list)>>]
        [] key = "class_credit" ->
             WithG(ClassCredited(g,
                     IF mapped.raised = "KeyError"
                     THEN \* exit(rule)
                          Raise(mapped, "SystemExit")
                     ELSE IF mapped.raised # "" THEN mapped
                     ELSE WriteLine(mapped, "log_file",
                                    <<env.requirement_id, "Subset class_credit">>),
                     "Subset", rule))
        [] key = "group_requirement" ->
             IF nested.raised # "" THEN WithG(nested)
             ELSE WithG(WriteLine(nested, "log_file",
                                  <<env.requirement_id, "Subset group_requirement">>))
        [] key \in {"maxpassfail", "maxperdisc", "mingpa", "minspread", "noncourse", "share"} ->
             WithG(WriteLine(g, "log_file", <<env.requirement_id, "Subset (ignored)", key>>))
        [] key = "proxy_advice" ->
             IF "proxy_advice" \in DOMAIN st.subset_context[1]
             THEN WithG(Raise(g, "SystemExit"))
             ELSE IF args.do_proxyadvice
             THEN [st EXCEPT
                     !.g = WriteLine(g, "log_file", <<env.requirement_id, "Subset", key>>),
                     !.subset_context = <<SetItem(@[1], "proxy_advice", rule)>>]
             ELSE WithG(WriteLine(g, "log_file",
                                  <<env.requirement_id, "Subset (ignored)", key>>))
        [] OTHER -> st \* reported on stderr

SubsetLoop(requirements, env, context_list, st, mogrify, depth) ==
  IF requirements = << >> \/ st.g.raised # "" THEN st
  ELSE SubsetLoop(Tail(requirements), env, context_list,
                  SubsetItem(Head(requirements), env, context_list, st, mogrify, depth),
                  mogrify, depth)

Subset(env, requirement_value, context_list, requirement_context, g, mogrify, depth) ==
  LET g1 == WriteLine(g, "log_file", <<env.requirement_id, "Body subset">>)
      g2 == IF "label" \in DOMAIN requirement_value THEN g1
            ELSE WriteLine(g1, "fail_file", <<env.requirement_id, "Subset with no label">>)
  IN  SubsetLoop(requirement_value.requirements, env, context_list,
                 [g |-> g2, requirement_context |-> requirement_context,
                  subset_context |-> <<SubsetContextDict(requirement_value)>>],
                 mogrify, depth).g

(***************************************************************************)
(* traverse_body() for a node that is a dict, lines 1012-1712.             *)
(***************************************************************************)
IgnoredBodyKeys == {"rule_complete", "noncourse"}

traverse_body(node, context_list, g, mogrify, depth) ==
  LET env == Prelude(context_list)
      requirement_type == node.requirement_type
      requirement_value == node.requirement_value
      context_dict == ContextDict(requirement_type, requirement_value)
      requirement_context == <<context_dict>>
      Same(new_g) == Result(new_g, context_list)
      called == Called(g, context_list)
      \* Lines 1041-1045
      logged == IF /\ "label" \notin DOMAIN requirement_value
                   /\ requirement_type \notin {"conditional", "copy_rules"}
                THEN WriteLine(called, "log_file",
                               <<env.requirement_id, "Body with no label", requirement_type>>)
                ELSE called
  IN  IF depth > MaxDepth THEN Same(Raise(g, "RecursionError"))
      ELSE CASE requirement_type = "remark" ->
                  \* a string: the frame is added to the caller's list (line 1024)
                  IF args.do_remarks
                  THEN Result(WriteLine(called, "log_file",
                                        <<env.requirement_id, "Body remark">>),
                              Append(context_list, [remark |-> requirement_value]))
                  ELSE Same(called)
             [] requirement_type = "block" ->
                  Same(BodyBlock(env, requirement_value, context_list, requirement_context,
                                 logged, mogrify, depth))
             [] requirement_type = "blocktype" ->
                  Same(Blocktyped(logged,
                                  BodyBlocktype(env, requirement_value, context_list,
                                                requirement_context, logged, mogrify, depth),
                                  env, requirement_value, context_list, requirement_context))
             [] requirement_type = "class_credit" ->
                  Same(ClassCredited(logged,
                                     BodyClassCredit(env, requirement_value, context_list,
                                                     requirement_context, logged, mogrify),
                                     "Body", requirement_value))
             [] requirement_type = "conditional" ->
                  LET done == body_conditional(context_list, requirement_value, logged, mogrify,
                                               depth + 1)
                  IN  IF done.g.raised # "" THEN done
                      ELSE Result(WriteLine(done.g, "log_file",
                                            <<env.requirement_id, "Body conditional">>),
                                  done.context_list)
             [] requirement_type = "copy_rules" ->
                  Same(CopyRules("Body", env, requirement_value.requirement_id, context_list,
                                 requirement_context, logged, mogrify, depth))
             [] requirement_type = "course_list" ->
                  Same(WriteLine(logged, "fail_file", <<env.requirement_id, "Body course_list">>))
             [] requirement_type = "course_list_rule" ->
                  Same(BodyCourseListRule(env, requirement_value, context_list,
                                          requirement_context, logged, mogrify))
             [] requirement_type = "group_requirement" ->
                  Same(GroupRequirement(env, requirement_value, context_list, context_dict,
                                        logged, mogrify, depth))
             [] requirement_type = "subset" ->
                  Same(Subset(env, requirement_value, context_list, requirement_context,
                              logged, mogrify, depth))
             [] requirement_type = "proxy_advice" ->
                  Same(WriteLine(logged, IF args.do_proxyadvice THEN "todo_file" ELSE "log_file",
                                 <<env.requirement_id, "Body", requirement_type>>))
             [] requirement_type \in IgnoredBodyKeys ->
                  Same(WriteLine(logged, "log_file",
                                 <<env.requirement_id, "Body (ignored)", requirement_type>>))
             [] OTHER -> Same(Raise(called, "SystemExit"))


(***************************************************************************)
(* process_block(), lines 491-763.  plan_dict is << >> for None.           *)
(***************************************************************************)
\* A block_info_dict that takes the block for one of another institution
BlockInfoDictElsewhere(block_info) ==
  [institution |-> "BKL01", requirement_id |-> block_info.requirement_id,
   block_type |-> block_info.block_type, block_value |-> block_info.block_value,
   block_title |-> block_info.block_title]

\* Lines 581-586
BlockInfoDict(block_info) ==
  [institution |-> block_info.institution, requirement_id |-> block_info.requirement_id,
   block_type |-> block_info.block_type, block_value |-> block_info.block_value,
   block_title |-> block_info.block_title]

\* Lines 594-622; the subplan_reference_count of every subplan is kept in
\* g.subplan_reference_count
PlanInfoDict(plan_dict) ==
  [plan_name |-> plan_dict.plan, plan_type |-> plan_dict.type,
   subplans |-> [i \in 1..Len(plan_dict.subplans) |->
                   [subplan_block_info |-> plan_dict.subplans[i].requirement_block,
                    subplan_name |-> plan_dict.subplans[i].subplan,
                    subplan_type |-> plan_dict.subplans[i].type]]]

\* Lines 630-633
CountReference(g, subplan_list, requirement_id) ==
  [g EXCEPT !.subplan_reference_count =
     [i \in DOMAIN @ |->
        IF subplan_list[i].subplan_block_info.requirement_id = requirement_id
        THEN @[i] + 1 ELSE @[i]]]

RECURSIVE BodyItems(_, _, _, _, _)
\* Lines 709-711: every body item gets a list of its own
BodyItems(body_list, context_list, g, mogrify, depth) ==
  IF body_list = << >> \/ g.raised # "" THEN g
  ELSE BodyItems(Tail(body_list), context_list,
                 traverse_body(Head(body_list), context_list, g, mogrify, depth).g,
                 mogrify, depth)

\* History: the traversal of the body of block requirement_id has returned
Completed(g, requirement_id) == [g EXCEPT !.completions = Append(@, requirement_id)]

\* A process_block() that writes the row of the block whether or not it has one
ProgramsRowAlways(g, block_info_dict, header_return_dict) ==
  [g EXCEPT
     !.program_blocks_list = Append(@, block_info_dict.requirement_id),
     !.programs_file =
        Append(@, [institution |-> "QNS",
                   requirement_id |-> block_info_dict.requirement_id,
                   block_type |-> block_info_dict.block_type,
                   block_value |-> block_info_dict.block_value,
                   block_title |-> block_info_dict.block_title,
                   header |-> header_return_dict])]

\* Lines 714-735
ProgramsRow(g, block_info_dict, header_return_dict) ==
  IF block_info_dict.requirement_id \in SeqToSet(g.program_blocks_list) THEN g
  ELSE [g EXCEPT
          !.program_blocks_list = Append(@, block_info_dict.requirement_id),
          !.programs_file =
             Append(@, [institution |-> "QNS",
                        requirement_id |-> block_info_dict.requirement_id,
                        block_type |-> block_info_dict.block_type,
                        block_value |-> block_info_dict.block_value,
                        block_title |-> block_info_dict.block_title,
                        header |-> header_return_dict])]

RECURSIVE SubplanReferences(_, _, _, _)
\* Lines 743-754: what is logged about the references to the subplans, from
\* subplan i on
SubplanReferences(g, requirement_id, subplans, i) ==
  IF i > Len(subplans) THEN g
  ELSE SubplanReferences(
         IF g.subplan_reference_count[i] = 0
         THEN WriteLine(g, "subplans_file",
                        <<requirement_id, "Subplan not referenced", subplans[i].subplan_name>>)
         ELSE IF g.subplan_reference_count[i] > 1
              THEN WriteLine(g, "subplans_file",
                             <<requirement_id, "Subplan referenced times",
                               subplans[i].subplan_name, g.subplan_reference_count[i]>>)
              ELSE g,
         requirement_id, subplans, i + 1)

\* A plan that takes none of its subplans for unreferenced
UnreferencedNone(subplans, counts, i) == << >>

RECURSIVE Unreferenced(_, _, _)
\* unreferenced_subplans, lines 742-748
Unreferenced(subplans, counts, i) ==
  IF i > Len(subplans) THEN << >>
  ELSE (IF counts[i] = 0 THEN <<subplans[i].subplan_block_info>> ELSE << >>)
       \o Unreferenced(subplans, counts, i + 1)

RECURSIVE ProcessUnreferenced(_, _, _, _, _)
\* Lines 757-758
ProcessUnreferenced(unreferenced_subplans, block_info_dict, g, mogrify, depth) ==
  IF unreferenced_subplans = << >> \/ g.raised # "" THEN g
  ELSE ProcessUnreferenced(Tail(unreferenced_subplans), block_info_dict,
         process_block(Head(unreferenced_subplans), <<[block_info |-> block_info_dict]>>,
                       << >>, Reference("process_block", 758), g, mogrify, depth + 1),
         mogrify, depth)

\* Lines 737-758
FinishPlan(g, block_info_dict, mogrify, depth) ==
  LET subplans == block_info_dict.plan_info.subplans
      checked == [g EXCEPT !.plan_checks =
                    Append(@, [requirement_id |-> block_info_dict.requirement_id,
                               subplan_reference_count |-> g.subplan_reference_count,
                               body_interpretations |-> g.body_interpretations,
                               circular_references |-> g.circular_references])]
      logged == SubplanReferences(checked, block_info_dict.requirement_id, subplans, 1)
  IN  IF Len(subplans) > 0
      THEN ProcessUnreferenced(Unreferenced(subplans, g.subplan_reference_count, 1),
                               block_info_dict, logged, mogrify, depth)
      ELSE checked

\* Lines 712-758: the block's row of the programs table, and the plan's subplans;
\* g3 is g as the traversal of the body left it
FinishBlock(block_info_dict, header, plan_dict, g3, mogrify, depth) ==
  IF g3.raised # "" THEN g3
  ELSE IF plan_dict # << >>
  THEN FinishPlan(ProgramsRow(Completed(g3, block_info_dict.requirement_id),
                              block_info_dict, header.return_dict),
                  block_info_dict, mogrify, depth)
  ELSE ProgramsRow(Completed(g3, block_info_dict.requirement_id), block_info_dict,
                   header.return_dict)

\* A process_block() that takes an empty body_list for a missing one
MissingOrEmptyBody(parse_tree) ==
  "body_list" \notin DOMAIN parse_tree \/ parse_tree.body_list = << >>

\* Lines 701-705: parse_tree['body_list'] raises KeyError
MissingBody(parse_tree) == "body_list" \notin DOMAIN parse_tree

\* Lines 581-711: header is what traverse_header() returned for the block, g1 is g
\* with the reference to the block counted
ProcessTree(block_info, parse_tree, header, context_list, plan_dict, g1, mogrify, depth) ==
  LET requirement_id == block_info.requirement_id
      block_info_dict == IF plan_dict # << >>
                         THEN SetItem(BlockInfoDict(block_info), "plan_info",
                                      PlanInfoDict(plan_dict))
                         ELSE BlockInfoDict(block_info)
      g2 == IF plan_dict # << >>
            THEN [g1 EXCEPT !.subplan_reference_count =
                              [i \in 1..Len(plan_dict.subplans) |-> 0],
                            !.plan_in_hand = requirement_id,
                            !.body_interpretations = << >>,
                            !.circular_references = << >>]
            ELSE CountReference(g1, context_list[1].block_info.plan_info.subplans,
                                requirement_id)
  IN  IF header.exit_msg # "" THEN Raise(g1, "SystemExit")
      ELSE IF plan_dict # << >> /\ context_list # << >> THEN Raise(g1, "AssertionError")
      ELSE IF MissingBody(parse_tree)
      THEN WriteLine(g2, "fail_file", <<requirement_id, "Missing Body">>)
      ELSE FinishBlock(block_info_dict, header, plan_dict,
                       IF parse_tree.body_list = << >>
                       THEN WriteLine(g2, "log_file", <<requirement_id, "Empty Body">>)
                       ELSE BodyItems(parse_tree.body_list,
                                      Append(context_list, [block_info |-> block_info_dict]),
                                      Interpreted(g2, requirement_id), mogrify, depth + 1),
                       mogrify, depth)

process_block(block_info, context_list, plan_dict, caller, g, mogrify, depth) ==
  LET requirement_id == block_info.requirement_id
      g1 == [(IF context_list = << >> THEN g ELSE Called(g, context_list)) EXCEPT
               !.reference_counts[requirement_id] = @ + 1,
               !.reference_callers =
                  Append(@, [requirement_id |-> requirement_id, name |-> caller.name,
                             lineno |-> caller.lineno, context_list |-> context_list])]
      parse_tree == requirement_blocks[requirement_id].parse_tree
  IN  IF depth > MaxDepth THEN Raise(g, "RecursionError")
      ELSE IF requirement_id \in quarantined
      THEN WriteLine(g1, "log_file", <<requirement_id, "Quarantined block (ignored)">>)
      ELSE IF DOMAIN parse_tree = {}
      THEN WriteLine(g1, "fail_file", <<requirement_id, "Empty parse tree (ignored)">>)
      ELSE IF "error" \in DOMAIN parse_tree
      THEN WriteLine(g1, "fail_file", <<requirement_id, "error">>)
      ELSE ProcessTree(block_info, parse_tree, traverse_header(parse_tree.header_list, args),
                       context_list, plan_dict, g1, mogrify, depth)

(***************************************************************************)
(* The run: the for loop of main, lines 1783-1792, one plan for each step. *)
(***************************************************************************)
BlockIds == {"RA1", "RA2", "RA3", "RA4", "RA5"}

\* Lines 37-50, and the files that course_mapper_files.py opens; the last five
\* fields are the histories
InitialGlobals ==
  [requirement_key |-> 0,
   reference_counts |-> [id \in BlockIds |-> 0],
   reference_callers |-> << >>,
   program_blocks_list |-> << >>,
   programs_file |-> << >>, requirements_file |-> << >>, mapping_file |-> << >>,
   log_file |-> << >>, fail_file |-> << >>, todo_file |-> << >>,
   no_courses_file |-> << >>, subplans_file |-> << >>,
   subplan_reference_count |-> << >>,
   map_courses_calls |-> << >>, body_interpretations |-> << >>,
   circular_references |-> << >>, plan_checks |-> << >>, completions |-> << >>,
   conditionals |-> << >>, plan_in_hand |-> "", frame_zeros |-> {},
   splices |-> << >>, resolutions |-> << >>,
   blocktypes |-> << >>, group_rules |-> << >>, group_names |-> {}, class_credits |-> {},
   raised |-> ""]

\* The course lists of the blocks of the run
CourseList(scribed_courses, except_courses) ==
  [include_courses |-> << >>, scribed_courses |-> scribed_courses,
   except_courses |-> except_courses]

\* BIO 1@ except BIO 100: two courses
ListOfTwo == CourseList(<< << <<"BIO", "1@", "">> >> >>, << <<"BIO", "100", "">> >>)

\* BIO 100 except BIO 100: no course
ListOfNone == CourseList(<< << <<"BIO", "100", "">> >> >>, << <<"BIO", "100", "">> >>)

\* BIO 101: one course
ListOfOne == CourseList(<< << <<"BIO", "101", "">> >> >>, << >>)

RunCourseLists == {ListOfTwo, ListOfNone, ListOfOne}

\* The values mogrify_course_list() can return in one run, for every course list
MogrifyChoices ==
  {f \in [RunCourseLists -> UNION {MogrifyOutcomes(d) : d \in RunCourseLists}] :
     \A d \in RunCourseLists : f[d] \in MogrifyOutcomes(d)}

\* The nodes of a body_list: {requirement_type: requirement_value}
Node(requirement_type, requirement_value) ==
  [requirement_type |-> requirement_type, requirement_value |-> requirement_value]

ClassCredit(label, course_list) ==
  Node("class_credit", [label |-> label, course_list |-> course_list])

UnlabelledClassCredit(course_list) == Node("class_credit", [course_list |-> course_list])

\* A class_credit that is a size constraint only: no course list
SizeClassCredit(label) == Node("class_credit", [label |-> label])

CourseListRule(label, course_list) ==
  Node("course_list_rule", [label |-> label, course_list |-> course_list])

CopyRulesNode(requirement_id) == Node("copy_rules", [requirement_id |-> requirement_id])

BlockNode(block_type, block_value) ==
  Node("block", [number |-> 1, institution |-> Institution, block_type |-> block_type,
                 block_value |-> block_value])

LabelledBlockNode(label, block_type, block_value) ==
  Node("block", [label |-> label, number |-> 1, institution |-> Institution,
                 block_type |-> block_type, block_value |-> block_value])

BlocktypeNode == Node("blocktype", [number |-> 1, block_type |-> "CONC"])

\* A blocktype reference to a second major, as the dual majors have
MajorBlocktypeNode == Node("blocktype", [number |-> 1, block_type |-> "MAJOR"])

IfNode(condition_str, if_true) ==
  Node("conditional", [condition_str |-> condition_str, if_true |-> if_true])

IfElseNode(condition_str, if_true, if_false) ==
  Node("conditional",
       [condition_str |-> condition_str, if_true |-> if_true, if_false |-> if_false])

SubsetNode(label, requirements) ==
  Node("subset", [label |-> label, requirements |-> requirements])

GroupNode(label, number, group_list) ==
  Node("group_requirement", [label |-> label, number |-> number, group_list |-> group_list])


\* A row of requirement_blocks; major1 is the block_value of the block's major
BlockRow(requirement_id, block_type, block_value, block_title, parse_tree) ==
  [institution |-> Institution, requirement_id |-> requirement_id,
   block_type |-> block_type, block_value |-> block_value, block_title |-> block_title,
   major1 |-> "BIO-BA", term_info |-> "active", period_stop |-> "99999999",
   parse_tree |-> parse_tree]

ParseTree(headers, body_list) == [header_list |-> headers, body_list |-> body_list]

\* The bodies of RA1, the block of the plan BIO-BA, whose subplans are S1 (RA2)
\* and S2 (RA3)
PlanBodies ==
  { <<ClassCredit("Core", ListOfTwo)>>,
    <<ClassCredit("Core", ListOfTwo), ClassCredit("Empty", ListOfNone)>>,
    <<UnlabelledClassCredit(ListOfOne), ClassCredit("Core", ListOfTwo)>>,
    <<CopyRulesNode("RA2")>>,
    <<BlockNode("CONC", "S1"), BlockNode("CONC", "S1")>>,
    <<BlockNode("CONC", "S2"), CourseListRule("Take <COURSETITLE>", ListOfOne)>>,
    <<BlocktypeNode>>,
    <<MajorBlocktypeNode, ClassCredit("Core", ListOfTwo)>>,
    <<SizeClassCredit("Free electives"), ClassCredit("Electives", << >>),
      ClassCredit("Core", ListOfTwo)>>,
    <<GroupNode("Two of these", 1,
                << <<SizeClassCredit("Free electives"), ClassCredit("Core", ListOfTwo)>>,
                   <<ClassCredit("Electives", << >>), ClassCredit("Core", ListOfTwo)>> >>)>>,
    <<SubsetNode("Electives", <<SizeClassCredit("Free electives"),
                                ClassCredit("Core", ListOfTwo)>>)>>,
    <<SubsetNode("Electives", <<ClassCredit("Electives", << >>),
                                ClassCredit("Core", ListOfTwo)>>)>>,
    <<IfElseNode("CONC = S1", <<Node("remark", "See the department"), BlocktypeNode>>,
                 <<ClassCredit("Core", ListOfTwo)>>)>>,
    <<IfNode("(CONC = S2)", <<BlocktypeNode>>)>>,
    <<Node("remark", "See the department"),
      SubsetNode("Electives", <<ClassCredit("Core", ListOfTwo),
                                CopyRulesNode("RA2")>>)>>,
    <<GroupNode("Select 2", 1,
                << <<ClassCredit("Core", ListOfTwo)>>,
                   <<LabelledBlockNode("Concentration", "CONC", "S1")>> >>)>> }

\* The bodies of RA2, the block of subplan S1
SubplanOneBodies ==
  { << >>,
    <<GroupNode("Choose 1 of the following set of sequences:", 2,
                << <<CourseListRule("Methods", ListOfOne)>>,
                   <<ClassCredit("Core", ListOfTwo), ClassCredit("Empty", ListOfNone)>> >>)>>,
    <<ClassCredit("<coursetitle> or <CourseTitle>", ListOfOne)>>,
    <<CopyRulesNode("RA1")>>,
    <<BlockNode("MAJOR", "BIO-BA")>>,
    <<BlockNode("CONC", "S2")>>,
    <<SubsetNode("Shared", <<CopyRulesNode("RA1")>>)>> }

\* The bodies of RA3, the block of subplan S2
SubplanTwoBodies ==
  { <<ClassCredit("Research", ListOfTwo)>>,
    <<BlockNode("CONC", "S1")>>,
    <<CopyRulesNode("RA2")>>,
    <<SubsetNode("Track", <<LabelledBlockNode("Concentration", "CONC", "S1")>>)>> }

\* The bodies of RA4, the block of the plan BIO-MIN, which has no subplans
MinorBodies ==
  { <<ClassCredit("<CourseCredits> credits", ListOfOne)>>,
    <<CopyRulesNode("RA1")>> }

BlockStore(plan_body, subplan_one_body, subplan_two_body, minor_body, several) ==
  [id \in BlockIds |->
     CASE id = "RA1" -> BlockRow("RA1", "MAJOR", "BIO-BA", "Biology BA",
                                 ParseTree(<<HeaderItem("header_mingpa")>>, plan_body))
       [] id = "RA2" -> BlockRow("RA2", "CONC", "S1", "Concentration One",
                                 ParseTree(<< >>, subplan_one_body))
       [] id = "RA3" -> BlockRow("RA3", "CONC", "S2", "Concentration Two",
                                 ParseTree(<< >>, subplan_two_body))
       [] id = "RA4" -> BlockRow("RA4", "MINOR", "BIO-MIN", "Biology Minor",
                                 ParseTree(<< >>, minor_body))
       [] OTHER -> [BlockRow("RA5", "CONC", "S1", "Concentration One",
                             ParseTree(<< >>, <<ClassCredit("Research", ListOfTwo)>>))
                      EXCEPT !.major1 = "CHEM-BA",
                             !.term_info = IF several THEN "active" ELSE "null"]]

\* The stores where the concentration S1 has one active block, RA2
SingleStores ==
  {BlockStore(a, b, c, d, FALSE) : a \in PlanBodies, b \in SubplanOneBodies,
                                   c \in SubplanTwoBodies, d \in MinorBodies}

\* The stores where the concentration S1 of another major, CHEM-BA, is active
\* too: CONC S1 then matches the blocks RA2 and RA5
SeveralBodies ==
  { <<BlockNode("CONC", "S1"), BlockNode("CONC", "S1")>>,
    <<BlocktypeNode>>,
    <<GroupNode("Two of these", 1,
                << <<ClassCredit("Core", ListOfTwo)>>,
                   <<LabelledBlockNode("Concentration", "CONC", "S1")>> >>)>> }

SeveralStores ==
  {BlockStore(a, << >>, c, <<CopyRulesNode("RA1")>>, TRUE) :
     a \in SeveralBodies, c \in SubplanTwoBodies}

BlockStores == SingleStores \cup SeveralStores

\* What get_parse_tree() can return for the block of a plan: {} for a block that
\* is not parsed yet, a tree that holds an error, a tree without body_list, a tree
\* with an empty body_list, and a tree with a body
PlanParseTrees ==
  { << >>,
    [error |-> "Invalid block"],
    [header_list |-> <<HeaderItem("header_mingpa")>>],
    ParseTree(<<HeaderItem("header_mingpa")>>, << >>),
    ParseTree(<<HeaderItem("header_mingpa")>>, <<ClassCredit("Core", ListOfTwo)>>) }

\* The stores where the block of the plan BIO-BA, RA1, has one of these trees
PlanTreeStores ==
  {[BlockStore(<< >>, b, c, <<ClassCredit("<CourseCredits> credits", ListOfOne)>>, FALSE)
      EXCEPT !["RA1"].parse_tree = parse_tree] :
     parse_tree \in PlanParseTrees,
     b \in {<< >>, <<ClassCredit("<coursetitle> or <CourseTitle>", ListOfOne)>>},
     c \in {<<ClassCredit("Research", ListOfTwo)>>, <<BlockNode("CONC", "S1")>>}}

\* What active_plans() yields for a block store: the plan of RA1 with its two
\* subplans, then the plan of RA4
ActivePlans(blocks) ==
  LET requirement_block(id) ==
        [institution |-> Institution, requirement_id |-> id,
         block_type |-> blocks[id].block_type, block_value |-> blocks[id].block_value,
         block_title |-> blocks[id].block_title]
  IN  << [plan |-> "BIO-BA", type |-> "MAJ", requirement_block |-> requirement_block("RA1"),
          subplans |-> << [subplan |-> "S1", type |-> "CON",
                           requirement_block |-> requirement_block("RA2")],
                          [subplan |-> "S2", type |-> "CON",
                           requirement_block |-> requirement_block("RA3")] >>],
         [plan |-> "BIO-MIN", type |-> "MIN", requirement_block |-> requirement_block("RA4"),
          subplans |-> << >>] >>

Init ==
  /\ \/ requirement_blocks \in BlockStores /\ quarantined \in {{}, {"RA2"}, {"RA3"}}
     \/ requirement_blocks \in PlanTreeStores /\ quarantined \in {{}, {"RA1"}, {"RA4"}}
  /\ plans = ActivePlans(requirement_blocks)
  /\ args \in [concise_conditionals : BOOLEAN, do_proxyadvice : {TRUE}, do_remarks : BOOLEAN]
  /\ programs_count = 0
  /\ globals = InitialGlobals
  /\ header_list = << >>
  /\ header_dict = << >>
  /\ IdleGrade
  /\ IdleCourses

\* One iteration of the loop of lines 1783-1792; an exception that nothing
\* catches ends the run
MainLoop ==
  /\ programs_count < Len(plans)
  /\ globals.raised = ""
  /\ programs_count' = programs_count + 1
  /\ \E mogrify \in MogrifyChoices :
       globals' = process_block(plans[programs_count + 1].requirement_block, << >>,
                                plans[programs_count + 1], Reference("<module>", 1792),
                                globals, mogrify, 1)
  /\ UNCHANGED <<requirement_blocks, quarantined, plans, args, header_list, header_dict,
                 gradeVars, courseVars>>

Next == MainLoop

Spec == Init /\ [][Next]_vars


(***************************************************************************)
(* C1.  Across a whole run, the requirement_key values written to the      *)
(* Requirements stream are strictly increasing in emission order, so no    *)
(* key value appears in two Requirements rows.                             *)
(***************************************************************************)
C1_RequirementKeysIncrease ==
  \A i, j \in 1..Len(globals.requirements_file) :
     i < j => globals.requirements_file[i].requirement_key
                < globals.requirements_file[j].requirement_key

\* Rows of both plans, one of them from a subplan's block, and a key that no row
\* carries (a call that mapped no course used it)
C1_Witness ==
  /\ programs_count = 2
  /\ Len(globals.requirements_file) >= 3
  /\ \E i \in 1..Len(globals.requirements_file) :
        globals.requirements_file[i].subplan_name # ""
  /\ \E i \in 1..Len(globals.requirements_file) - 1 :
        globals.requirements_file[i + 1].requirement_key
          > globals.requirements_file[i].requirement_key + 1

(***************************************************************************)
(* C2.  For every block store and every block that is not quarantined and  *)
(* has a non-empty body, process_block terminates: the recursion through   *)
(* block, blocktype, copy_rules, group, subset and conditional nodes is    *)
(* finite, also when the references between blocks form a cycle.  In the   *)
(* model a recursion that does not end runs into MaxDepth.                 *)
(***************************************************************************)
C2_ProcessBlockTerminates == globals.raised # "RecursionError"

(***************************************************************************)
(* C3.  When the body of a plan's block A is a copy_rules naming B and the *)
(* body of B is a copy_rules naming A, interpreting A refuses the second   *)
(* entry into A: the body of A is interpreted exactly once, and the        *)
(* reference that is found circular is the one from B to A.                *)
(***************************************************************************)
CopyRulesOnly(requirement_id, target) ==
  requirement_blocks[requirement_id].parse_tree.body_list = <<CopyRulesNode(target)>>

Occurrences(s, x) == Cardinality({i \in DOMAIN s : s[i] = x})

C3_SecondEntryRefused ==
  \A k \in 1..Len(globals.plan_checks) : \A b \in BlockIds :
     LET check == globals.plan_checks[k]
         a == check.requirement_id
     IN  (a # b /\ CopyRulesOnly(a, b) /\ CopyRulesOnly(b, a) /\ {a, b} \cap quarantined = {})
         => /\ Occurrences(check.body_interpretations, a) = 1
            /\ [from |-> b, to |-> a] \in SeqToSet(check.circular_references)

(***************************************************************************)
(* C7.  When the traversal of a plan block's body has completed and the    *)
(* plan has been finished, process_block has been called standalone, with  *)
(* a context that holds the plan's block-entry frame and nothing else, for *)
(* exactly the declared subplans whose reference counter was still 0;      *)
(* every subplan whose counter was greater than 1 is logged as referenced  *)
(* several times; and every Requirements row emitted from the block of     *)
(* such an unreferenced subplan, anchored directly under the plan, carries *)
(* the plan's name and that subplan's name.                                *)
(***************************************************************************)
StandaloneCalls(plan_block) ==
  {i \in DOMAIN globals.reference_callers :
     /\ globals.reference_callers[i].lineno = 758
     /\ globals.reference_callers[i].context_list[1].block_info.requirement_id = plan_block}

ZeroCounted(plan, counts) == {i \in DOMAIN plan.subplans : counts[i] = 0}

Normalised == {"mapped", "no_label", "no_courses"}

C9_RowsPerCall ==
  \A c \in DOMAIN globals.map_courses_calls :
     LET call == globals.map_courses_calls[c]
     IN  call.outcome \in Normalised
         => IF call.num_courses >= 1
            THEN /\ call.mapping_rows = call.mapping_before + call.num_courses
                 /\ call.requirements_rows = call.requirements_before + 1
                 /\ \A i \in (call.mapping_before + 1)..call.mapping_rows :
                       globals.mapping_file[i].requirement_key = call.requirement_key
                 /\ \A i \in (call.requirements_before + 1)..call.requirements_rows :
                       globals.requirements_file[i].requirement_key = call.requirement_key
            ELSE /\ call.mapping_rows = call.mapping_before
                 /\ call.requirements_rows = call.requirements_before
                 /\ call.no_courses_rows = call.no_courses_before + 1
                 /\ call.outcome = "no_courses"

(***************************************************************************)
(* C10.  Between the calls of map_courses, and so at the end of every      *)
(* iteration of the main loop, the requirement_key of every CourseMapping  *)
(* row is the requirement_key of exactly one Requirements row.             *)
(***************************************************************************)
C10_MappingKeysResolve ==
  \A i \in DOMAIN globals.mapping_file :
     Cardinality({j \in DOMAIN globals.requirements_file :
                    globals.requirements_file[j].requirement_key
                      = globals.mapping_file[i].requirement_key}) = 1

(***************************************************************************)
(* C11.  The body of a quarantined block is never interpreted, by whatever *)
(* route the block is reached: as a plan, as the target of a block or      *)
(* blocktype reference, as an unreferenced subplan, or as the target of a  *)
(* copy_rules of a body or of a subset.                                    *)
(***************************************************************************)
InterpretedBodies ==
  SeqToSet(globals.body_interpretations)
    \cup UNION {SeqToSet(globals.plan_checks[k].body_interpretations) :
                  k \in DOMAIN globals.plan_checks}

C11_QuarantinedNeverInterpreted == quarantined \cap InterpretedBodies = {}

(***************************************************************************)
(* C12.  The Programs rows never hold two rows of one (institution,        *)
(* requirement_id), and a block that process_block interprets several      *)
(* times has the one row that the first completed interpretation wrote:    *)
(* the rows are, in their order, the blocks in the order in which the      *)
(* interpretation of each was first completed.                             *)
(***************************************************************************)
ProgramIds == [i \in DOMAIN globals.programs_file |-> globals.programs_file[i].requirement_id]

C12_OneProgramsRow ==
  /\ \A i, j \in DOMAIN globals.programs_file :
        (/\ globals.programs_file[i].institution = globals.programs_file[j].institution
         /\ globals.programs_file[i].requirement_id = globals.programs_file[j].requirement_id)
        => i = j
  /\ ProgramIds = Dedupe(globals.completions, {})

\* The interpretation of a block was completed twice, and of three blocks at least once
C12_Witness ==
  /\ \E id \in BlockIds : Occurrences(globals.completions, id) >= 2
  /\ Len(globals.programs_file) >= 3

(***************************************************************************)
(* C13.  When the label of a requirement holds the marker <COURSETITLE> or *)
(* <COURSECREDITS>, in any letter case, the label of the Requirements row  *)
(* has every occurrence of the marker replaced by the title, respectively  *)
(* the credits, of the first course mapped, and holds no marker any more.  *)
(***************************************************************************)
TitleMarkers == {"<COURSETITLE>", "<coursetitle>", "<CourseTitle>"}

CreditsMarkers == {"<COURSECREDITS>", "<coursecredits>", "<CourseCredits>"}

ExpectedLabel(call) ==
  LET tokens == LabelTokens(call.label)
  IN  JoinTokens([i \in DOMAIN tokens |->
                    IF tokens[i] \in TitleMarkers THEN call.course_title
                    ELSE IF tokens[i] \in CreditsMarkers THEN call.credits
                    ELSE tokens[i]])

EmittedLabel(call) ==
  Last(globals.requirements_file[call.requirements_rows].context).requirement.label

C13_MarkersReplaced ==
  \A c \in DOMAIN globals.map_courses_calls :
     LET call == globals.map_courses_calls[c]
     IN  call.outcome = "mapped" => EmittedLabel(call) = ExpectedLabel(call)

(***************************************************************************)
(* C14.  For every body conditional, with remarks enabled or not and       *)
(* whatever its legs hold: when the true leg is done the stack is the one  *)
(* body_conditional was called with (the frame of the true leg was the top *)
(* frame and has been removed), so the frame of the true leg is not on the *)
(* stack of the false leg, and the stack body_conditional returns is the   *)
(* one it was called with.                                                 *)
(***************************************************************************)
C14_ConditionalRestoresStack ==
  \A c \in DOMAIN globals.conditionals :
     LET call == globals.conditionals[c]
     IN  /\ call.after_true = call.called_with
         /\ call.returned = call.called_with
         /\ \A i \in DOMAIN call.false_with :
               \A f \in (Len(call.called_with) + 1)..Len(call.false_with[i]) :
                  call.false_with[i][f] # call.begin_true

(***************************************************************************)
(* C15.  In every call of traverse_body, of map_courses and of a nested    *)
(* process_block made while a plan is interpreted, its unreferenced        *)
(* subplans included, frame 0 of the context stack is the block-entry      *)
(* frame of that plan: it carries the plan's plan_info, and its            *)
(* institution and requirement_id are those of the plan's block in every   *)
(* such call.                                                              *)
(***************************************************************************)
PlanOfBlock(requirement_id) ==
  plans[CHOOSE k \in DOMAIN plans : plans[k].requirement_block.requirement_id = requirement_id]

C15_FrameZeroIsThePlan ==
  \A z \in globals.frame_zeros :
     /\ z.frame # << >>
     /\ DOMAIN z.frame[1] = {"block_info"}
     /\ "plan_info" \in DOMAIN z.frame[1].block_info
     /\ z.frame[1].block_info.requirement_id = z.plan
     /\ z.frame[1].block_info.institution = PlanOfBlock(z.plan).requirement_block.institution
     /\ z.frame[1].block_info.plan_info.plan_name = PlanOfBlock(z.plan).plan

\* Both plans were interpreted, the first with a nested block, a standalone subplan
\* and courses mapped in it
C15_Witness ==
  /\ programs_count = 2
  /\ globals.raised = ""
  /\ Cardinality(globals.frame_zeros) = 2
  /\ \E c \in DOMAIN globals.reference_callers : globals.reference_callers[c].lineno = 758
  /\ \E c \in DOMAIN globals.reference_callers : globals.reference_callers[c].lineno = 1104
  /\ \E r \in DOMAIN globals.requirements_file :
        Len(globals.requirements_file[r].requirement_ids) >= 2

(***************************************************************************)
(* C16.  Whenever the body of the target of a copy_rules, of a body or of  *)
(* a subset, is spliced into the traversal, no frame of the stack at the   *)
(* reference holds the target's requirement_id: neither a block-entry      *)
(* frame nor the frame of an earlier splice.                               *)
(***************************************************************************)
FrameIds(frame) ==
  (IF "block_info" \in DOMAIN frame THEN {frame.block_info.requirement_id} ELSE {})
    \cup (IF "requirement_id" \in DOMAIN frame THEN {frame.requirement_id} ELSE {})

C16_NoSpliceOfBlockOnStack ==
  \A c \in DOMAIN globals.splices :
     \A f \in DOMAIN globals.splices[c].context_list :
        globals.splices[c].target \notin FrameIds(globals.splices[c].context_list[f])


\* The candidates of a recorded block resolution whose major1 is the
\* block_value of a block-entry frame of the context chain
Qualifying(resolution) ==
  {id \in resolution.rows :
     requirement_blocks[id].major1 \in resolution.nested_block_values}

\* C17: a block reference that matches several active blocks, in a body, in a
\* group or in a subset, takes the one candidate whose major1 is a block_value
\* of a block-entry frame of the context chain; when none or more than one
\* candidate qualifies no block is taken and a failure is logged
C17_TargetIsTheChainsCandidate ==
  \A i \in DOMAIN globals.resolutions :
     LET resolution == globals.resolutions[i]
     IN  Cardinality(resolution.rows) > 1
         => IF Cardinality(Qualifying(resolution)) = 1
            THEN /\ resolution.target = <<CHOOSE id \in Qualifying(resolution) : TRUE>>
                 /\ Len(globals.reference_callers) > resolution.callers
                 /\ globals.reference_callers[resolution.callers + 1].requirement_id
                      = resolution.target[1]
            ELSE /\ resolution.target = << >>
                 /\ Len(globals.fail_file) > resolution.fail_rows


\* The blocktype references met whose type is not CONC or whose enclosing
\* block has no active subplans (no plan, or a plan without subplans)
SkippedBlocktypes ==
  {i \in DOMAIN globals.blocktypes :
     \/ globals.blocktypes[i].block_type # "CONC"
     \/ globals.blocktypes[i].active_subplans = << >>}

\* C18: a blocktype reference whose type is not CONC, or whose enclosing block
\* has no active subplans (a block that is not a plan included), is skipped:
\* process_block is called for no subplan, a message is logged and no
\* exception ends the run
C18_BlocktypeSkipped ==
  \A i \in SkippedBlocktypes :
     /\ globals.blocktypes[i].called = << >>
     /\ globals.blocktypes[i].logged
     /\ globals.blocktypes[i].raised = ""


\* The concentration that a condition of a true leg names by an equality,
\* parenthesized or not
NamedBy(condition_str) ==
  CASE condition_str = "CONC = S1" -> {"S1"}
    [] condition_str = "(CONC = S2)" -> {"S2"}
    [] OTHER -> {}

\* The concentrations named by the conditional frames of a stack
NamedConcentrations(context_list) ==
  UNION {IF DOMAIN context_list[f] \cap {"if", "if_true"} # {}
         THEN NamedBy(context_list[f][CHOOSE k \in DOMAIN context_list[f] : TRUE])
         ELSE {} : f \in DOMAIN context_list}

\* The blocks of the subplans of a recorded blocktype reference that are among
\* names, in the plan's subplan order
RECURSIVE BlocksNamed(_, _, _)
BlocksNamed(blocktype, names, i) ==
  IF i > Len(blocktype.active_subplans) THEN << >>
  ELSE (IF blocktype.active_subplans[i] \in names
        THEN <<blocktype.subplan_blocks[i]>> ELSE << >>)
       \o BlocksNamed(blocktype, names, i + 1)

\* The blocktype references met that were valid and came to their end
ValidBlocktypes ==
  {i \in DOMAIN globals.blocktypes :
     /\ globals.blocktypes[i].block_type = "CONC"
     /\ globals.blocktypes[i].active_subplans # << >>
     /\ globals.blocktypes[i].raised = ""}

\* C19: a valid blocktype reference under conditional frames that name
\* concentrations by an equality calls process_block for exactly the plan's
\* subplans so named; under no such frame it calls process_block once for
\* every subplan of the plan, in the plan's subplan order
C19_BlocktypeSubplans ==
  \A i \in ValidBlocktypes :
     LET blocktype == globals.blocktypes[i]
         names == NamedConcentrations(blocktype.context_list)
     IN  blocktype.called
           = BlocksNamed(blocktype,
                         IF names = {} THEN SeqToSet(blocktype.active_subplans) ELSE names, 1)


\* The frame is in the stack
OnStack(frame, context_list) == \E f \in DOMAIN context_list : context_list[f] = frame

\* Every requirement of every group is interpreted: one that ended without an
\* exception and is not the last is followed by the next of its group requirement
C20_EveryRuleInterpreted ==
  \A i \in DOMAIN globals.group_rules :
     LET rule == globals.group_rules[i]
     IN  (rule.raised = "" /\ rule.remaining > 0)
         => \E j \in DOMAIN globals.group_rules :
               /\ j > i
               /\ globals.group_rules[j].stack_depth = rule.stack_depth
               /\ globals.group_rules[j].remaining = rule.remaining - 1

\* A block of a group is descended into with the frame of its group on the stack
C20_BlockUnderGroupFrame ==
  \A i \in DOMAIN globals.group_rules :
     LET rule == globals.group_rules[i]
     IN  \A c \in DOMAIN rule.block_calls : OnStack(rule.group_context, rule.block_calls[c])

\* A class_credit of a group with a resolvable course list yields one record,
\* whose context holds the frame of its group
C20_ClassCreditRecord ==
  \A i \in DOMAIN globals.group_rules :
     LET rule == globals.group_rules[i]
     IN  (rule.key = "class_credit" /\ rule.resolvable)
         => /\ Len(rule.contexts) = 1
            /\ OnStack(rule.group_context, rule.contexts[1])

\* A course_list_rule of a group with a resolvable course list yields one
\* record, whose context holds the frame of its group
C20_CourseListRuleRecord ==
  \A i \in DOMAIN globals.group_rules :
     LET rule == globals.group_rules[i]
     IN  (rule.key = "course_list_rule" /\ rule.resolvable)
         => /\ Len(rule.contexts) = 1
            /\ OnStack(rule.group_context, rule.contexts[1])

\* C20: whatever the required count of a group_requirement, every sub-rule of
\* every group is interpreted, each with the ordinal frame of its group on the
\* stack, and a class_credit or course_list_rule sub-rule with a resolvable
\* course list yields one requirement record whose context holds that frame
C20_GroupRulesUnderGroupFrame ==
  /\ C20_EveryRuleInterpreted
  /\ C20_BlockUnderGroupFrame
  /\ C20_ClassCreditRecord
  /\ C20_CourseListRuleRecord


\* The words of a scribed name that are no stop words: what is left once every
\* occurrence of every stop word is taken out
ContentWords(word_str) ==
  SelectSeq(LabelWords(word_str), LAMBDA word : word \notin SeqToSet(IgnoreWords))

\* C21: a group_requirement is named by format_group_description(n, k) exactly
\* when its scribed label, numerals, punctuation and every occurrence of every
\* stop word taken out, has no word left, and keeps its scribed label otherwise
C21_GroupNamedByContent ==
  \A named \in globals.group_names :
     named.requirement_name
       = IF ContentWords(named.word_str) = << >>
         THEN format_group_description(named.num_groups, named.num_required)
         ELSE named.word_str


\* C22: a class_credit without a course list (no course_list key, or an empty
\* one) is no error in a body, in a group or in a subset: it adds no row to
\* the Requirements and CourseMapping streams and no exception ends the run,
\* so that the rules after it are interpreted
C22_NoCourseListNoError ==
  \A met \in globals.class_credits :
     met.course_list \in {"absent", "empty"}
     => /\ met.requirements_rows = 0
        /\ met.mapping_rows = 0
        /\ met.raised = ""


\* The position in the context column of the frame of the block that holds the
\* requirement of a Requirements row: the last block_info frame
LeafBlockFrame(row) ==
  CHOOSE i \in DOMAIN row.context :
    /\ IsBlockFrame(row.context[i])
    /\ \A j \in DOMAIN row.context : IsBlockFrame(row.context[j]) => j <= i

\* The leaf requirement of a row: the block that holds it, and the frames from
\* that block down to the requirement itself
LeafOf(row) ==
  [block |-> row.context[LeafBlockFrame(row)].block_info.requirement_id,
   frames |-> SubSeq(row.context, LeafBlockFrame(row) + 1, Len(row.context))]

\* C27: within the interpretation of one plan a leaf requirement gets at most one
\* requirement_key and at most one Requirements row, however often its block is
\* reached: no two rows of a plan are rows of the same leaf.
C27_OneRowPerLeaf ==
  \A r, s \in DOMAIN globals.requirements_file :
     (/\ r < s
      /\ globals.requirements_file[r].plan_name = globals.requirements_file[s].plan_name)
     => LeafOf(globals.requirements_file[r]) # LeafOf(globals.requirements_file[s])

\* The rows of one leaf are as many as the interpretations, for the plan of the
\* row, of the block that holds the leaf
RowsOfALeafAreItsBlocksEntries ==
  \A r, s \in DOMAIN globals.requirements_file :
     (/\ r < s
      /\ globals.requirements_file[r].plan_name = globals.requirements_file[s].plan_name
      /\ LeafOf(globals.requirements_file[r]) = LeafOf(globals.requirements_file[s]))
     => globals.reference_counts[LeafOf(globals.requirements_file[r]).block] > 1


\* The frames of conditional legs in the context column of a Requirements row
ConditionalFrames(row) ==
  {i \in DOMAIN row.context : IsConditionalFrame(row.context[i])}

PlanBlock(p) == plans[p].requirement_block.requirement_id

PlanTree(p) == requirement_blocks[PlanBlock(p)].parse_tree

\* process_block() returns at once for the block of the p-th plan: the block is
\* quarantined, its parse tree is empty or holds an error, or it has no body_list
NotInterpretable(p) ==
  \/ PlanBlock(p) \in quarantined
  \/ DOMAIN PlanTree(p) = {}
  \/ "error" \in DOMAIN PlanTree(p)
  \/ "body_list" \notin DOMAIN PlanTree(p)

\* The block of the p-th plan has a body_list, which is empty
EmptyBodyList(p) == ~NotInterpretable(p) /\ PlanTree(p).body_list = << >>

ProgramsRowsOf(requirement_id) ==
  {r \in DOMAIN globals.programs_file :
     globals.programs_file[r].requirement_id = requirement_id}

\* The calls of process_block() made while plan_block was the plan in hand
CallsUnder(plan_block) ==
  {c \in DOMAIN globals.reference_callers :
     /\ globals.reference_callers[c].context_list # << >>
     /\ globals.reference_callers[c].context_list[1].block_info.requirement_id = plan_block}

\* C28: for a top-level plan block that is quarantined, has an empty or error
\* parse tree, or has no body_list, process_block writes no Programs row and
\* interprets none of the plan's subplans: no block is processed under the plan
\* and no Requirements row is written for it.  A plan whose body_list is empty
\* gets its Programs row, and each of its subplans is processed as an orphan.
C28_NoRowNoOrphans ==
  \A p \in 1..programs_count :
     /\ NotInterpretable(p)
        => /\ ProgramsRowsOf(PlanBlock(p)) = {}
           /\ CallsUnder(PlanBlock(p)) = {}
           /\ \A r \in DOMAIN globals.requirements_file :
                 /\ globals.requirements_file[r].requirement_ids[1] # PlanBlock(p)
                 /\ globals.requirements_file[r].plan_name # plans[p].plan
     /\ EmptyBodyList(p)
        => /\ Cardinality(ProgramsRowsOf(PlanBlock(p))) = 1
           /\ (p < programs_count \/ globals.raised = "")
              => {globals.reference_callers[c].requirement_id :
                    c \in StandaloneCalls(PlanBlock(p))}
                   = {plans[p].subplans[i].requirement_block.requirement_id :
                        i \in DOMAIN plans[p].subplans}

\* The run is over: the plan BIO-BA, whose block has no body_list, was passed
\* over, and the plan after it has its Programs row
C28_Witness ==
  /\ programs_count = Len(plans)
  /\ PlanBlock(1) \notin quarantined
  /\ DOMAIN PlanTree(1) = {"header_list"}
  /\ plans[1].subplans # << >>
  /\ ProgramsRowsOf(PlanBlock(2)) # {}

=============================================================================
